---- MODULE Spec2Model ----
(***************************************************************************)
(* Model of the My Life Diary client (src/src/App.jsx): the note list kept *)
(* from store snapshots, the search filter, the today / year-month-day     *)
(* grouping computed on every render, and the expansion state of the       *)
(* hierarchy (search-expansion effect and manual toggle), the note         *)
(* operations on the user's collection (create, edit, delete, samples) and *)
(* the push-to-talk recording session around the speech recognition.       *)
(*                                                                         *)
(* Strings whose characters matter (note text, search term) are sequences  *)
(* of one-character strings.  A Firestore Timestamp is its number of       *)
(* seconds since the epoch; a note without a timestamp is a record without *)
(* the field.  Local time is UTC and the locale is en-US.                  *)
(***************************************************************************)
EXTENDS Integers, Sequences, FiniteSets, TLC

VARIABLES
    notes,          \* useState([])   : the working note list (line 119)
    searchTerm,     \* useState('')   : the search term (line 129)
    expandedItems,  \* useState({})   : node key -> boolean (line 130)
    showPastNotes,  \* useState(false): "Past Entries" section open (line 125)
    rendered,       \* what the last render computed (lines 263-269)
    now,            \* the wall clock read by new Date()
    crashed,        \* an exception escaped an effect or a render
    openedBy,       \* history: key -> who last set it to true, "auto" or "user"
    user,           \* useState(null)  : the signed-in user's uid (line 120)
    store,          \* the documents of users/{uid}/notes in the document store
    editingNote,    \* useState(null)  : the note being edited (line 123)
    editText,       \* useState("")    : the text of the edit field (line 124)
    isRecording,    \* useState(false) : a recording session is on (line 122)
    micError,       \* useState('')    : the microphone error message (line 127)
    language,       \* useState('en-US'): the recognition language (line 128)
    recognitionRef, \* useRef(null)    : the current recognition handle (line 136)
    recognitions,   \* the SpeechRecognition objects alive: handle -> object
    transcriptRef,  \* useRef("")      : the transcript buffer (line 137)
    lastCall,       \* history: the last step, if it was a call of handleRecordStart
                    \* or saveEdit or a pushed snapshot, and what it threw
    firestoreError, \* useState(null) : the message of a subscription error (line 133)
    showDeleteConfirm, \* useState(null) : the selection of the delete dialog (line 126)
    themeColor,     \* useState('#2d3748') : the theme color (line 131)
    isPreview,      \* typeof __firebase_config !== 'undefined' (line 152)
    subscribed,     \* the listener of the data effect is attached and alive
    isLoadingSamples, \* useState(false) : a load of the samples is under way (line 132)
    pending         \* the requests awaited by a handler and not settled yet,
                    \* each with the code it will be rejected with, "" for none

\* the state of the page: note list, search, expansion, render
pageVars == <<notes, searchTerm, expandedItems, showPastNotes, rendered, now, crashed, openedBy,
             firestoreError>>

\* the state of the account and of the note operations
storeVars == <<user, store, editingNote, editText>>

\* the state of the recording session
recordingVars == <<isRecording, micError, language, recognitionRef, recognitions, transcriptRef>>

\* the delete dialog, the theme, the environment, the subscription and the
\* requests under way
sessionVars == <<showDeleteConfirm, themeColor, isPreview, subscribed, isLoadingSamples,
                pending>>

vars == <<notes, searchTerm, expandedItems, showPastNotes, rendered, now, crashed, openedBy,
          user, store, editingNote, editText, isRecording, micError, language,
          recognitionRef, recognitions, transcriptRef, lastCall,
          firestoreError, showDeleteConfirm, themeColor, isPreview, subscribed,
          isLoadingSamples, pending>>

----------------------------------------------------------------------------
(* Bounds and input universes *)

\* largest note collection handed to the grouping
MaxNotes == 4

\* largest number of documents in a snapshot delivered to the running page
MaxDocs == 2

\* The documents of the store, in document-id order: 2024-01-20 15:30 (two
\* notes), 2024-01-21 09:00, 2024-07-15 10:00, 2023-11-05 12:00,
\* 2026-10-29 08:00, and one document without a timestamp.
NoteUniverse ==
    << [id |-> "n1", text |-> <<"A", "b">>,      timestamp |-> 1705764600],
       [id |-> "n2", text |-> <<"b", " ", "c">>, timestamp |-> 1705764600],
       [id |-> "n3", text |-> <<"A", "b">>,      timestamp |-> 1705827600],
       [id |-> "n4", text |-> <<"b", " ", "c">>, timestamp |-> 1721037600],
       [id |-> "n5", text |-> <<"b", " ", "c">>, timestamp |-> 1699185600],
       [id |-> "n6", text |-> <<"A", "b">>,      timestamp |-> 1793260800],
       [id |-> "n7", text |-> <<"b", " ", "c">>] >>

\* The search terms the user may type: '', ' ', 'a', 'B'.
Terms == { <<>>, <<" ">>, <<"a">>, <<"B">> }

\* The instant at which the running page is observed (2026-10-29 09:00).
PageClocks == { 1793264400 }

\* The documents (positions in NoteUniverse) that exist in the store while
\* the running page is observed.
LiveDocs == { 1, 5, 6, 7 }

----------------------------------------------------------------------------
(* String helpers: String.prototype.toLowerCase / includes / trim *)

RECURSIVE toLowerCase(_)
toLowerCase(s) ==
    LET lower(c) ==
        CASE c = "A" -> "a"  [] c = "B" -> "b"  [] c = "C" -> "c"
          [] c = "D" -> "d"  [] c = "E" -> "e"  [] c = "F" -> "f"
          [] c = "G" -> "g"  [] c = "H" -> "h"  [] c = "I" -> "i"
          [] c = "J" -> "j"  [] c = "K" -> "k"  [] c = "L" -> "l"
          [] c = "M" -> "m"  [] c = "N" -> "n"  [] c = "O" -> "o"
          [] c = "P" -> "p"  [] c = "Q" -> "q"  [] c = "R" -> "r"
          [] c = "S" -> "s"  [] c = "T" -> "t"  [] c = "U" -> "u"
          [] c = "V" -> "v"  [] c = "W" -> "w"  [] c = "X" -> "x"
          [] c = "Y" -> "y"  [] c = "Z" -> "z"
          [] OTHER   -> c
    IN  IF s = <<>> THEN <<>>
        ELSE <<lower(Head(s))>> \o toLowerCase(Tail(s))

includes(s, t) ==
    \E i \in 0..(Len(s) - Len(t)) : SubSeq(s, i + 1, i + Len(t)) = t

RECURSIVE trimStart(_)
trimStart(s) ==
    IF s # <<>> /\ Head(s) = " " THEN trimStart(Tail(s)) ELSE s

RECURSIVE trimEnd(_)
trimEnd(s) ==
    IF s # <<>> /\ s[Len(s)] = " " THEN trimEnd(SubSeq(s, 1, Len(s) - 1)) ELSE s

trim(s) == trimEnd(trimStart(s))

----------------------------------------------------------------------------
(* Date helpers: Timestamp.toDate() followed by the Date getters *)

MonthNames ==
    << "January", "February", "March", "April", "May", "June", "July",
       "August", "September", "October", "November", "December" >>

\* The calendar fields of an instant, computed from its day count: the day
\* of the 400-year era, the year of the era, the day of the year counted
\* from March 1st, and the month counted from March.
dateOfMonth(days, y0, doy, mp) ==
    [ year  |-> y0 + (IF mp < 10 THEN 0 ELSE 1),
      month |-> (IF mp < 10 THEN mp + 3 ELSE mp - 9) - 1,
      date  |-> doy - (153 * mp + 2) \div 5 + 1,
      day   |-> (days + 4) % 7 ]

dateOfYearOfEra(days, era, doe, yoe) ==
    dateOfMonth(days, yoe + era * 400,
                doe - (365 * yoe + yoe \div 4 - yoe \div 100),
                (5 * (doe - (365 * yoe + yoe \div 4 - yoe \div 100)) + 2) \div 153)

dateOfDayOfEra(days, era, doe) ==
    dateOfYearOfEra(days, era, doe,
        (doe - doe \div 1460 + doe \div 36524 - doe \div 146096) \div 365)

\* Timestamp.toDate() of the instant t (seconds since the epoch)
toDate(t) ==
    dateOfDayOfEra(t \div 86400, (t \div 86400 + 719468) \div 146097,
                   (t \div 86400 + 719468) % 146097)

getFullYear(t) == toDate(t).year
\* variant: the day of the week (getDay) taken for the day of the month
getDay(t) == toDate(t).day

getDate(t) == toDate(t).date
monthLong(t) == MonthNames[toDate(t).month + 1]

toDateString(t) ==
    LET c == toDate(t)
    IN  << "Sun", "Mon", "Tue", "Wed", "Thu", "Fri", "Sat" >>[c.day + 1] \o " "
          \o << "Jan", "Feb", "Mar", "Apr", "May", "Jun", "Jul",
                "Aug", "Sep", "Oct", "Nov", "Dec" >>[c.month + 1] \o " "
          \o (IF c.date < 10 THEN "0" ELSE "") \o ToString(c.date) \o " "
          \o ToString(c.year)

----------------------------------------------------------------------------
(* Notes *)

hasTimestamp(n) == "timestamp" \in DOMAIN n

\* variant: a note without a timestamp counts as written just now
isTodayOrPending(n, clock) ==
    IF hasTimestamp(n) THEN toDateString(n.timestamp) = toDateString(clock)
    ELSE TRUE

\* n.timestamp?.toDate().toDateString() === new Date().toDateString()
isToday(n, clock) ==
    hasTimestamp(n) /\ toDateString(n.timestamp) = toDateString(clock)

\* n.timestamp?.toDate().toDateString() !== new Date().toDateString()
isNotToday(n, clock) ==
    IF hasTimestamp(n) THEN toDateString(n.timestamp) # toDateString(clock)
    ELSE TRUE

\* variant: the term is compared as typed
matchesTermAsTyped(n, term) == includes(toLowerCase(n.text), term)

\* n.text.toLowerCase().includes(searchTerm.toLowerCase())
matchesTerm(n, term) == includes(toLowerCase(n.text), toLowerCase(term))

----------------------------------------------------------------------------
(* JavaScript objects used as maps *)

\* {} : the object without keys
EmptyObject == [k \in {} |-> TRUE]

\* obj[k] read as a condition: an absent key is undefined, hence false
truthy(obj, k) == k \in DOMAIN obj /\ obj[k]

\* obj[k] = v
put(obj, k, v) == [x \in DOMAIN obj \cup {k} |-> IF x = k THEN v ELSE obj[x]]

\* {...a, ...b}
spread(a, b) ==
    [x \in DOMAIN a \cup DOMAIN b |-> IF x \in DOMAIN b THEN b[x] ELSE a[x]]

----------------------------------------------------------------------------
(* Snapshot handling: the sort of the snapshot callback *)

\* variant: a note without a timestamp counts as written just now
sortKeyJustNow(n) == IF hasTimestamp(n) THEN n.timestamp ELSE 2000000000

\* (b.timestamp?.toDate() || 0) - (a.timestamp?.toDate() || 0) orders by this
sortKey(n) == IF hasTimestamp(n) THEN n.timestamp ELSE 0

\* insert x behind every element that does not have to come after it
RECURSIVE insertSorted(_, _)
insertSorted(sorted, x) ==
    IF sorted = <<>> THEN <<x>>
    ELSE IF sortKey(x) - sortKey(Head(sorted)) > 0
         THEN <<x>> \o sorted
         ELSE <<Head(sorted)>> \o insertSorted(Tail(sorted), x)

\* Array.prototype.sort with the comparator above (stable, newest first)
RECURSIVE sortNotes(_)
sortNotes(docs) ==
    IF docs = <<>> THEN <<>>
    ELSE insertSorted(sortNotes(SubSeq(docs, 1, Len(docs) - 1)), docs[Len(docs)])

\* the document lists a snapshot may carry: at most max documents of the
\* universe, in document-id order, no id twice
docsAt(I) ==
    LET all == [i \in 1..Len(NoteUniverse) |-> i]
        In(i) == i \in I
        idx == SelectSeq(all, In)
    IN  [j \in 1..Len(idx) |-> NoteUniverse[idx[j]]]

SnapshotsUpTo(max, among) ==
    { docsAt(I) : I \in { J \in SUBSET among :
                            /\ Cardinality(J) <= max
                            /\ \A i, j \in J :
                                 NoteUniverse[i].id = NoteUniverse[j].id => i = j } }

----------------------------------------------------------------------------
(* Grouping, computed on every render (lines 263-269) *)

filteredNotes(ns, term) ==
    LET keep(n) == matchesTerm(n, term)
    IN  SelectSeq(ns, keep)

\* longest time a render takes, in seconds: every new Date() of one render
\* reads a clock no later than that after the render began
MaxRenderTime == 1

\* the clocks that count calls of new Date(), one after the other, can read
\* between from and to: the clock does not run backwards
RECURSIVE ClockReads(_, _, _)
ClockReads(count, from, to) ==
    IF count = 0 THEN { <<>> }
    ELSE UNION { { <<c>> \o rest : rest \in ClockReads(count - 1, c, to) } : c \in from..to }

\* line 264: the callback of the filter calls new Date() for the note it
\* is given; reads[i] is the clock read for the i-th filtered note
todayNotes(ns, term, reads) ==
    LET fs      == filteredNotes(ns, term)
        calls   == [i \in 1..Len(fs) |-> [note |-> fs[i], clock |-> reads[i]]]
        keep(c) == isToday(c.note, c.clock)
        kept    == SelectSeq(calls, keep)
    IN  [i \in 1..Len(kept) |-> kept[i].note]

\* line 265: a second filter over the filtered notes, run after the one of
\* line 264; reads[Len(fs) + i] is the clock read for the i-th filtered note
pastNotesRaw(ns, term, reads) ==
    LET fs      == filteredNotes(ns, term)
        calls   == [i \in 1..Len(fs) |-> [note |-> fs[i], clock |-> reads[Len(fs) + i]]]
        keep(c) == isNotToday(c.note, c.clock)
        kept    == SelectSeq(calls, keep)
    IN  [i \in 1..Len(kept) |-> kept[i].note]

\* acc[y][m][day].push(note) in the months object of one year, creating
\* the month and the day when missing
pushIntoDays(days, day, note) ==
    put(days, day, Append(IF day \in DOMAIN days THEN days[day] ELSE <<>>, note))

\* the months object of one year is a sequence of [key, val] in insertion
\* order: a month that is there gets the note, a new month goes to the end
pushIntoMonths(months, m, day, note) ==
    IF \E i \in 1..Len(months) : months[i].key = m
    THEN [months EXCEPT ![CHOOSE i \in 1..Len(months) : months[i].key = m].val =
                            pushIntoDays(@, day, note)]
    ELSE Append(months, [key |-> m, val |-> pushIntoDays(EmptyObject, day, note)])

\* the reducer: notes without a timestamp are skipped
addToStructure(acc, note) ==
    IF ~hasTimestamp(note) THEN acc
    ELSE put(acc, getFullYear(note.timestamp),
             pushIntoMonths(IF getFullYear(note.timestamp) \in DOMAIN acc
                            THEN acc[getFullYear(note.timestamp)] ELSE <<>>,
                            monthLong(note.timestamp), getDate(note.timestamp), note))

RECURSIVE reduceStructure(_, _)
reduceStructure(acc, ns) ==
    IF ns = <<>> THEN acc
    ELSE reduceStructure(addToStructure(acc, Head(ns)), Tail(ns))

\* year -> months object -> day -> list of notes
\* the derived data of one render whose calls of new Date() read the clocks
\* reads; after an uncaught exception React unmounts the tree and nothing is
\* rendered
renderView(ns, term, reads) ==
    [ mounted             |-> TRUE,
      filteredNotes       |-> filteredNotes(ns, term),
      todayNotes          |-> todayNotes(ns, term, reads),
      pastNotesRaw        |-> pastNotesRaw(ns, term, reads),
      structuredPastNotes |-> reduceStructure(EmptyObject, pastNotesRaw(ns, term, reads)) ]

\* what a render that begins at clock can compute: the two filters read the
\* clock once for every filtered note (lines 264-265), and midnight can
\* fall between two reads.  The reads enter the view by their date string
\* alone: while the day does not end within the render, the view is the one
\* of reads that all give clock.
renderViews(ns, term, clock) ==
    LET count == 2 * Len(filteredNotes(ns, term))
    IN  IF toDateString(clock) = toDateString(clock + MaxRenderTime)
        THEN { renderView(ns, term, [i \in 1..count |-> clock]) }
        ELSE { renderView(ns, term, reads) :
                 reads \in ClockReads(count, clock, clock + MaxRenderTime) }

\* pastNotesRaw.length > 0 && (...) (line 311): is the "Past Entries"
\* section part of what the render view shows
showsPastEntries(view) == Len(view.pastNotesRaw) > 0

NotRendered ==
    [ mounted             |-> FALSE,
      filteredNotes       |-> <<>>,
      todayNotes          |-> <<>>,
      pastNotesRaw        |-> <<>>,
      structuredPastNotes |-> EmptyObject ]

----------------------------------------------------------------------------
(* Search expansion effect (lines 191-198), run after every change of      *)
(* searchTerm or notes                                                     *)

searchMatches(ns, term, clock) ==
    LET keep(n) == matchesTerm(n, term) /\ isNotToday(n, clock)
    IN  SelectSeq(ns, keep)

\* the keys matches.forEach sets to true: the year, a number used as a
\* property name, and the template literal `${y}-${m}`
newExpandedOf(matches) ==
    [k \in { ToString(getFullYear(matches[i].timestamp)) : i \in 1..Len(matches) }
           \cup { ToString(getFullYear(matches[i].timestamp)) \o "-"
                     \o monthLong(matches[i].timestamp) : i \in 1..Len(matches) }
       |-> TRUE]

\* variant: setExpandedItems(newExpanded), the state is replaced
searchExpansionEffectReplacing(ns, term, prev, show, clock) ==
    IF trim(term) = <<>>
    THEN [expandedItems |-> prev, showPastNotes |-> show, threw |-> FALSE]
    ELSE
      LET matches == searchMatches(ns, term, clock)
          show2   == IF Len(matches) > 0 THEN TRUE ELSE show
      IN  IF \E i \in 1..Len(matches) : ~hasTimestamp(matches[i])
          THEN [expandedItems |-> prev, showPastNotes |-> show2, threw |-> TRUE]
          ELSE [expandedItems |-> newExpandedOf(matches),
                showPastNotes |-> show2, threw |-> FALSE]

\* variant: a blank term collapses everything, setExpandedItems({})
searchExpansionEffectCollapsing(ns, term, prev, show, clock) ==
    IF trim(term) = <<>>
    THEN [expandedItems |-> EmptyObject, showPastNotes |-> show, threw |-> FALSE]
    ELSE
      LET matches == searchMatches(ns, term, clock)
          show2   == IF Len(matches) > 0 THEN TRUE ELSE show
      IN  IF \E i \in 1..Len(matches) : ~hasTimestamp(matches[i])
          THEN [expandedItems |-> prev, showPastNotes |-> show2, threw |-> TRUE]
          ELSE [expandedItems |-> spread(prev, newExpandedOf(matches)),
                showPastNotes |-> show2, threw |-> FALSE]

\* result of one run: the two pieces of state it sets, and whether
\* n.timestamp.toDate() was evaluated on a note without a timestamp
searchExpansionEffect(ns, term, prev, show, clock) ==
    IF trim(term) = <<>>
    THEN [expandedItems |-> prev, showPastNotes |-> show, threw |-> FALSE]
    ELSE
      LET matches == searchMatches(ns, term, clock)
          show2   == IF Len(matches) > 0 THEN TRUE ELSE show
      IN  IF \E i \in 1..Len(matches) : ~hasTimestamp(matches[i])
          THEN [expandedItems |-> prev, showPastNotes |-> show2, threw |-> TRUE]
          ELSE [expandedItems |-> spread(prev, newExpandedOf(matches)),
                showPastNotes |-> show2, threw |-> FALSE]

----------------------------------------------------------------------------
(* What the render offers *)

\* the keys that carry a toggle button: every year of the hierarchy when
\* the section is open, every month of an expanded year
renderedKeys ==
    LET st == rendered.structuredPastNotes
    IN  IF Len(rendered.pastNotesRaw) > 0 /\ showPastNotes
        THEN { ToString(y) : y \in DOMAIN st }
             \cup UNION { { ToString(y) \o "-" \o st[y][i].key : i \in 1..Len(st[y]) } :
                            y \in { z \in DOMAIN st : truthy(expandedItems, ToString(z)) } }
        ELSE {}

----------------------------------------------------------------------------
(* Account, edit and recording state after sign-in *)

\* user === null, recognitionRef.current === null, editingNote === null
NoUser == "null"
NoHandle == 0
NoNote == <<>>

\* firestoreError === null, showDeleteConfirm === null
NoError == "null"
NoSelection == [type |-> "null"]

\* '#2d3748', the theme color of the first render (line 131)
DefaultThemeColor == << "#", "2", "d", "3", "7", "4", "8" >>

\* the uid of the account observed
Uid == "u1"

\* the last step was none of the calls remembered
NoCall == [handler |-> "", threw |-> ""]

\* a SpeechRecognition object as the setup effect configures it (lines
\* 182-186): its language, the user its onend handler's addNote closes over,
\* and the state of its session
newRecognition(lang, u) ==
    [lang |-> lang, user |-> u, state |-> "idle", stopRequested |-> FALSE]

\* the setup effect has run at mount (lines 179-188): with
\* SpeechRecognition the first object is in place, without it the message
WithSpeech ==
    /\ micError = ""
    /\ recognitionRef = 1
    /\ recognitions = (1 :> newRecognition("en-US", Uid))

\* the signed-in page at rest: nothing edited, nothing recorded
AtRest ==
    /\ user = Uid
    /\ editingNote = NoNote
    /\ editText = <<>>
    /\ isRecording = FALSE
    /\ language = "en-US"
    /\ transcriptRef = <<>>
    /\ lastCall = NoCall
    /\ firestoreError = NoError
    /\ showDeleteConfirm = NoSelection
    /\ themeColor = DefaultThemeColor
    /\ subscribed = TRUE
    /\ isLoadingSamples = FALSE
    /\ pending = <<>>

SignedInIdle ==
    /\ store = <<>>
    /\ AtRest
    /\ WithSpeech
    /\ isPreview = FALSE

----------------------------------------------------------------------------
(* State machine of the running page *)

Init ==
    /\ notes = <<>>
    /\ searchTerm = <<>>
    /\ expandedItems = EmptyObject
    /\ showPastNotes = FALSE
    /\ now \in PageClocks
    /\ rendered = [NotRendered EXCEPT !.mounted = TRUE]
    /\ crashed = FALSE
    /\ openedBy = EmptyObject
    /\ SignedInIdle

\* the render that follows every state change
Rerender ==
    rendered' \in IF crashed' THEN { NotRendered }
                  ELSE renderViews(notes', searchTerm', now')

\* the part of an action that is the re-run of the search expansion effect
RunEffect(ns, term) ==
    LET r == searchExpansionEffect(ns, term, expandedItems, showPastNotes, now)
    IN  /\ expandedItems' = r.expandedItems
        /\ showPastNotes' = r.showPastNotes
        /\ crashed' = r.threw
        /\ openedBy' = spread(openedBy,
               [k \in { x \in DOMAIN r.expandedItems :
                          r.expandedItems[x] /\ ~truthy(expandedItems, x) }
                  |-> "auto"])

\* onSnapshot success callback (lines 162-165): clear the error message,
\* replace and sort the list; the new list re-runs the effect
SnapshotDelivered(docs) ==
    /\ firestoreError' = NoError
    /\ notes' = sortNotes(docs)
    /\ RunEffect(notes', searchTerm)
    /\ UNCHANGED <<searchTerm, now>>
    /\ Rerender

\* a snapshot pushed by the store to the running page
OnSnapshot(docs) ==
    /\ ~crashed
    /\ SnapshotDelivered(docs)
    /\ UNCHANGED <<storeVars, recordingVars, sessionVars, lastCall>>

\* onChange of the search input (line 308): the new term re-runs the effect.
\* Without a user the page is the sign-in screen (line 274) and has no
\* search input, no hierarchy and no buttons.
SetSearchTerm(term) ==
    /\ ~crashed
    /\ user # NoUser
    /\ term # searchTerm
    /\ searchTerm' = term
    /\ RunEffect(notes, term)
    /\ UNCHANGED <<notes, now, firestoreError>>
    /\ UNCHANGED <<storeVars, recordingVars, sessionVars, lastCall>>
    /\ Rerender

\* variant: the key is always set, never cleared
toggleExpandOpening(prev, key) == put(prev, key, TRUE)

\* setExpandedItems(prev => ({ ...prev, [key]: !prev[key] }))
toggleExpand(prev, key) == put(prev, key, ~truthy(prev, key))

\* click on the button of a year or of a month (lines 315, 318)
ToggleExpand(key) ==
    /\ ~crashed
    /\ user # NoUser
    /\ expandedItems' = toggleExpand(expandedItems, key)
    /\ openedBy' = IF truthy(expandedItems', key) THEN put(openedBy, key, "user")
                   ELSE openedBy
    /\ UNCHANGED <<notes, searchTerm, showPastNotes, now, crashed, firestoreError>>
    /\ UNCHANGED <<storeVars, recordingVars, sessionVars, lastCall>>
    /\ Rerender

\* click on the "Past Entries" header (line 312)
TogglePastNotes ==
    /\ ~crashed
    /\ user # NoUser
    /\ Len(rendered.pastNotesRaw) > 0
    /\ showPastNotes' = ~showPastNotes
    /\ UNCHANGED <<notes, searchTerm, expandedItems, now, crashed, openedBy, firestoreError>>
    /\ UNCHANGED <<storeVars, recordingVars, sessionVars, lastCall>>
    /\ Rerender

Next ==
    \/ \E docs \in SnapshotsUpTo(MaxDocs, LiveDocs) : OnSnapshot(docs)
    \/ \E term \in Terms : SetSearchTerm(term)
    \/ \E key \in renderedKeys : ToggleExpand(key)
    \/ TogglePastNotes

Spec == Init /\ [][Next]_vars

----------------------------------------------------------------------------
(* The grouping as a function of its inputs: any collection the snapshot   *)
(* callback can produce, any term, any clock; the one step is the render.  *)

InitGrouping ==
    /\ notes \in { sortNotes(docs) : docs \in SnapshotsUpTo(MaxNotes, 1..Len(NoteUniverse)) }
    /\ searchTerm \in Terms
    \* 2026-10-29 09:00 and 2024-01-20 22:00
    /\ now \in { 1793264400, 1705788000 }
    /\ expandedItems = EmptyObject
    /\ showPastNotes = FALSE
    /\ rendered = NotRendered
    /\ crashed = FALSE
    /\ openedBy = EmptyObject
    /\ SignedInIdle

Render ==
    /\ ~rendered.mounted
    /\ rendered' \in renderViews(notes, searchTerm, now)
    /\ UNCHANGED <<notes, searchTerm, expandedItems, showPastNotes, now, crashed, openedBy,
                   firestoreError>>
    /\ UNCHANGED <<storeVars, recordingVars, sessionVars, lastCall>>

NextGrouping == Render

SpecGrouping == InitGrouping /\ [][NextGrouping]_vars

\* the same collections and terms, the render beginning in the last second
\* of 2026-10-29
InitMidnight ==
    /\ notes \in { sortNotes(docs) : docs \in SnapshotsUpTo(MaxNotes, 1..Len(NoteUniverse)) }
    /\ searchTerm \in Terms
    /\ now \in { 1793318399 }
    /\ expandedItems = EmptyObject
    /\ showPastNotes = FALSE
    /\ rendered = NotRendered
    /\ crashed = FALSE
    /\ openedBy = EmptyObject
    /\ SignedInIdle

SpecMidnight == InitMidnight /\ [][NextGrouping]_vars

----------------------------------------------------------------------------
(* The snapshot callback under any delivery: whatever the list was, the    *)
(* store may push any documents, listed in any order.                      *)

\* largest number of documents of a pushed snapshot
MaxSnapshot == 4

\* onSnapshot success callback (lines 162-165), the documents it was given
\* being remembered
DeliverSnapshot(docs) ==
    /\ ~crashed
    /\ SnapshotDelivered(docs)
    /\ lastCall' = [handler |-> "onSnapshot", threw |-> "", docs |-> docs]
    /\ UNCHANGED <<storeVars, recordingVars, sessionVars>>

\* the lists in every order: the ids the store generates are random, so
\* the documents of a query listed by id can come in any order
NextSnapshot ==
    \E docs \in UNION { { [j \in 1..k |-> NoteUniverse[f[j]]] :
                            f \in { g \in [1..k -> { 1, 2, 5, 6, 7 }] :
                                      \A i, j \in 1..k : g[i] = g[j] => i = j } } :
                        k \in 0..MaxSnapshot } :
        DeliverSnapshot(docs)

SpecSnapshot == Init /\ [][NextSnapshot]_vars

----------------------------------------------------------------------------
(* The user's collection in the document store *)

\* largest number of documents in the collection when a note is created
MaxStore == 2

\* the final transcripts the recognition may deliver: ' ' and ' b '
Transcripts == { <<" ">>, <<" ", "b", " ">> }

\* the ids of the documents the page knows of
knownIds(docs, ns, editing) ==
    { docs[i].id : i \in 1..Len(docs) } \cup { ns[i].id : i \in 1..Len(ns) }
      \cup { editing[i].id : i \in 1..Len(editing) }

\* the k-th document id the store generates
docId(k) == "d" \o ToString(k)

\* doc(collection(...)) / addDoc: an id no document has; the ids are
\* numbered, the first free number is taken
freshId(taken) ==
    docId(CHOOSE j \in 1..(1 + Cardinality(taken)) :
            /\ docId(j) \notin taken
            /\ \A i \in 1..(j - 1) : docId(i) \in taken)

\* addNote (line 201): the documents of users/{u}/notes afterwards; the
\* timestamp is Timestamp.now(), the clock of the client
addNote(u, text, clock, docs, taken) ==
    IF u # NoUser /\ trim(text) # <<>>
    THEN Append(docs, [id |-> freshId(taken), text |-> trim(text), timestamp |-> clock])
    ELSE docs

\* the documents of users/{u}/notes: store is the collection of the first
\* account, a second account ("u2") holds the note of November 2023
collectionOf(u, docs) == IF u = Uid THEN docs ELSE docsAt({ 5 })

\* The listener of lines 162-165 is called with the documents of the
\* signed-in user's collection as they are now: after the page has
\* subscribed, after a write of this page or elsewhere.  Every call stores a
\* new list, also one with the same documents, and the effects run again.
\* The call is a turn of its own, after the handler that wrote; the message
\* it found is remembered.
SnapshotArrives ==
    /\ ~crashed
    /\ user # NoUser
    /\ subscribed
    /\ SnapshotDelivered(collectionOf(user, store))
    /\ lastCall' = [handler |-> "onSnapshot", threw |-> "", found |-> firestoreError]
    /\ UNCHANGED <<storeVars, recordingVars, sessionVars>>

----------------------------------------------------------------------------
(* Recording session (lines 179-188, 253-254) *)

\* largest number of SpeechRecognition objects alive at once: the current
\* one and those whose session is still running
MaxRecognitions == 2

\* the error codes the recognition reports
ErrorCodes == { "no-speech" }

\* SpeechRecognition.start(): begins a session; on an object whose session
\* has begun it throws InvalidStateError and changes nothing
startThrows(r) == r.state # "idle"

start(r) ==
    IF startThrows(r) THEN r
    ELSE [r EXCEPT !.state = "listening", !.stopRequested = FALSE]

\* the objects that still matter: the one recognitionRef holds and those
\* whose session has not ended (the others are unreachable)
alive(recs, ref) ==
    [h \in { k \in DOMAIN recs : k = ref \/ recs[k].state # "idle" } |-> recs[h]]

freshHandle(recs) ==
    CHOOSE h \in 1..(Cardinality(DOMAIN recs) + 1) :
        /\ h \notin DOMAIN recs
        /\ \A k \in 1..(h - 1) : k \in DOMAIN recs

\* the setup effect, re-run when user or language changes: without
\* SpeechRecognition it sets the message; otherwise it creates an object
\* and stores it in recognitionRef.  The previous object is neither stopped
\* nor aborted.
setupRecognition(supported, recs, ref, err, lang, u) ==
    IF ~supported
    THEN [recognitions |-> recs, recognitionRef |-> ref,
          micError |-> "Speech recognition not supported."]
    ELSE [recognitions |-> alive(recs, NoHandle) @@
                             (freshHandle(alive(recs, NoHandle)) :> newRecognition(lang, u)),
          recognitionRef |-> freshHandle(alive(recs, NoHandle)),
          micError |-> err]

\* variant: the message of an earlier error is not looked at
handleRecordStartUnguarded(err, ref, recs, rec, tr) ==
    IF ref = NoHandle
    THEN [isRecording |-> rec, transcriptRef |-> tr, recognitions |-> recs, threw |-> ""]
    ELSE [isRecording |-> TRUE, transcriptRef |-> <<>>,
          recognitions |-> [recs EXCEPT ![ref] = start(@)],
          threw |-> IF startThrows(recs[ref]) THEN "InvalidStateError" ELSE ""]

\* handleRecordStart (line 253)
handleRecordStart(err, ref, recs, rec, tr) ==
    IF err # "" \/ ref = NoHandle
    THEN [isRecording |-> rec, transcriptRef |-> tr, recognitions |-> recs, threw |-> ""]
    ELSE [isRecording |-> TRUE, transcriptRef |-> <<>>,
          recognitions |-> [recs EXCEPT ![ref] = start(@)],
          threw |-> IF startThrows(recs[ref]) THEN "InvalidStateError" ELSE ""]

\* handleRecordStop (line 254); SpeechRecognition.stop() asks a running
\* session to end
handleRecordStop(err, ref, recs, rec) ==
    IF err # "" \/ ref = NoHandle \/ ~rec THEN recs
    ELSE [recs EXCEPT ![ref] = IF @.state = "idle" THEN @
                               ELSE [@ EXCEPT !.stopRequested = TRUE]]

\* variant: the error is logged, no message is stored
onerrorSilent(code, err) == err

\* r.onerror (line 185): the message stored
onerror(code, err) == "Speech error: " \o code

\* press on the microphone button (onMouseDown / onTouchStart, line 333).
\* The footer shows the button while micError is empty; the handler is
\* taken as it is written, also for a call that finds the message set.
HandleRecordStart ==
    /\ ~crashed
    /\ user # NoUser
    /\ LET r == handleRecordStart(micError, recognitionRef, recognitions,
                                  isRecording, transcriptRef)
       IN  /\ isRecording' = r.isRecording
           /\ transcriptRef' = r.transcriptRef
           /\ recognitions' = r.recognitions
           /\ lastCall' = [handler |-> "handleRecordStart", threw |-> r.threw]
    /\ UNCHANGED <<micError, language, recognitionRef>>
    /\ UNCHANGED <<storeVars, pageVars, sessionVars>>

\* release of the microphone button (onMouseUp / onTouchEnd, line 333)
HandleRecordStop ==
    /\ ~crashed
    /\ user # NoUser
    /\ recognitions' = handleRecordStop(micError, recognitionRef, recognitions, isRecording)
    /\ lastCall' = NoCall
    /\ UNCHANGED <<isRecording, micError, language, recognitionRef, transcriptRef>>
    /\ UNCHANGED <<storeVars, pageVars, sessionVars>>

\* r.onresult (line 184): the final transcript of the session of object h.
\* The recognition hears speech only while the collection has room for the
\* notes the running sessions can still save (each saves the buffer once,
\* when it ends); otherwise it reports silence.
OnResult(h, transcript) ==
    /\ ~crashed
    /\ recognitions[h].state = "listening"
    /\ trim(transcript) # <<>>
       => Len(store) + Cardinality({ k \in DOMAIN recognitions :
                                       recognitions[k].state # "idle" }) <= MaxStore
    /\ transcriptRef' = transcript
    /\ recognitions' = [recognitions EXCEPT ![h].state = "ending"]
    /\ lastCall' = NoCall
    /\ UNCHANGED <<isRecording, micError, language, recognitionRef>>
    /\ UNCHANGED <<storeVars, pageVars, sessionVars>>

\* r.onerror (line 185): the session of object h fails
OnError(h, code) ==
    /\ ~crashed
    /\ recognitions[h].state = "listening"
    /\ micError' = onerror(code, micError)
    /\ isRecording' = FALSE
    /\ recognitions' = [recognitions EXCEPT ![h].state = "ending"]
    /\ lastCall' = NoCall
    /\ UNCHANGED <<language, recognitionRef, transcriptRef>>
    /\ UNCHANGED <<storeVars, pageVars, sessionVars>>

\* r.onend (line 186): the session of object h is over, after stop() or by
\* itself; addNote is the one of the render in which h was set up
OnEnd(h) ==
    /\ ~crashed
    /\ recognitions[h].state # "idle"
    /\ isRecording' = FALSE
    /\ store' = addNote(recognitions[h].user, transcriptRef, now, store,
                        knownIds(store, notes, editingNote))
    /\ recognitions' = alive([recognitions EXCEPT ![h] = newRecognition(@.lang, @.user)],
                             recognitionRef)
    /\ lastCall' = [handler |-> "onend", threw |-> "", saved |-> store' # store]
    /\ UNCHANGED <<micError, language, recognitionRef, transcriptRef>>
    /\ UNCHANGED <<user, editingNote, editText>>
    /\ UNCHANGED sessionVars
    /\ UNCHANGED pageVars

\* the part of an action that is the re-run of the setup effect
RunSetup(lang, u) ==
    LET r == setupRecognition(recognitionRef # NoHandle, recognitions,
                              recognitionRef, micError, lang, u)
    IN  /\ recognitions' = r.recognitions
        /\ recognitionRef' = r.recognitionRef
        /\ micError' = r.micError
        /\ Cardinality(DOMAIN r.recognitions) <= MaxRecognitions

\* onChange of the language select (line 299)
SetLanguage(lang) ==
    /\ ~crashed
    /\ user # NoUser
    /\ lang # language
    /\ language' = lang
    /\ RunSetup(lang, user)
    /\ lastCall' = NoCall
    /\ UNCHANGED <<isRecording, transcriptRef>>
    /\ UNCHANGED <<storeVars, pageVars, sessionVars>>

\* the user the onAuthStateChanged callback stores (line 153): in the
\* preview environment a null user is not stored, signInAnonymously is
\* called and the anonymous user comes with a later call
onAuthStateChanged(preview, u, cur) == IF preview /\ u = NoUser THEN cur ELSE u

\* onAuthStateChanged callback (line 153) and the effects the new user
\* re-runs: the data effect (lines 158-176) detaches the listener and either
\* empties the list or subscribes, the first snapshot coming later; the
\* setup effect creates a new recognition object.  The deployed page shows
\* the sign-in button only while nobody is signed in.
OnAuthStateChanged(u) ==
    /\ ~crashed
    /\ ~(~isPreview /\ u # NoUser /\ user # NoUser)
    /\ onAuthStateChanged(isPreview, u, user) # user
    /\ user' = onAuthStateChanged(isPreview, u, user)
    /\ RunSetup(language, user')
    /\ subscribed' = (user' # NoUser)
    /\ IF user' = NoUser
       THEN /\ notes' = <<>>
            /\ RunEffect(notes', searchTerm)
            /\ UNCHANGED <<searchTerm, now, firestoreError>>
            /\ Rerender
       ELSE UNCHANGED pageVars
    /\ lastCall' = NoCall
    /\ UNCHANGED <<store, editingNote, editText, isRecording, language, transcriptRef>>
    /\ UNCHANGED <<showDeleteConfirm, themeColor, isPreview, isLoadingSamples, pending>>

\* the page opened on one of the collections stores at one of the instants
\* clocks, the first snapshot delivered
OpenedOn(stores, clocks) ==
    /\ now \in clocks
    /\ store \in stores
    /\ notes = sortNotes(store)
    /\ searchTerm = <<>>
    /\ expandedItems = EmptyObject
    /\ showPastNotes = FALSE
    /\ rendered \in renderViews(notes, searchTerm, now)
    /\ crashed = FALSE
    /\ openedBy = EmptyObject
    /\ AtRest

\* the page opened on the empty collection or on the note of today, the
\* clock of the client right (2026-10-29 09:00) or set back to 2024-01-20
\* 22:00; without SpeechRecognition the setup effect has set the message
\* (line 181)
InitRecording ==
    /\ OpenedOn({ <<>>, docsAt({6}) }, PageClocks \cup { 1705788000 })
    /\ isPreview = FALSE
    /\ \/ WithSpeech
       \/ /\ micError = "Speech recognition not supported."
          /\ recognitionRef = NoHandle
          /\ recognitions = [h \in {} |-> TRUE]

NextRecording ==
    \/ HandleRecordStart
    \/ HandleRecordStop
    \/ \E h \in DOMAIN recognitions : \E transcript \in Transcripts : OnResult(h, transcript)
    \/ \E h \in DOMAIN recognitions : \E code \in ErrorCodes : OnError(h, code)
    \/ \E h \in DOMAIN recognitions : OnEnd(h)
    \/ \E lang \in { "en-US", "fr-FR" } : SetLanguage(lang)
    \/ \E u \in { NoUser, Uid } : OnAuthStateChanged(u)
    \/ SnapshotArrives

SpecRecording == InitRecording /\ [][NextRecording]_vars

----------------------------------------------------------------------------
(* Note operations (lines 201-250) *)

daysFromCivil(y, m, d) ==
    LET era == (IF m <= 2 THEN y - 1 ELSE y) \div 400
        yoe == (IF m <= 2 THEN y - 1 ELSE y) % 400
        doy == (153 * ((m + 9) % 12) + 2) \div 5 + d - 1
    IN  era * 146097 + (yoe * 365 + yoe \div 4 - yoe \div 100 + doy) - 719468

\* new Date(new Date().setMonth(new Date().getMonth() - 1)): the instant
\* with the calendar fields and the time of day of t, moved to the month
\* before
setMonthBack(t) ==
    LET c == toDate(t)
    IN  daysFromCivil((c.year * 12 + c.month - 1) \div 12,
                      ((c.year * 12 + c.month - 1) % 12) + 1, c.date) * 86400
          + (t % 86400)

\* the sample notes of loadSampleData (lines 230-238), dates as instants
sampleNotes(clock) ==
    << [ text |->
           << "T", "h", "i", "s", " ", "i", "s", " ", "a", " ", "n", "o",
              "t", "e", " ", "f", "r", "o", "m", " ", "t", "o", "d", "a",
              "y", "." >>,
         date |-> clock ],
       [ text |->
           << "A", "n", "d", " ", "a", "n", "o", "t", "h", "e", "r", " ",
              "o", "n", "e", " ", "f", "r", "o", "m", " ", "t", "o", "d",
              "a", "y", "." >>,
         date |-> clock ],
       [ text |->
           << "A", " ", "n", "o", "t", "e", " ", "f", "r", "o", "m", " ",
              "y", "e", "s", "t", "e", "r", "d", "a", "y", "." >>,
         date |-> clock - 86400 ],
       [ text |->
           << "A", " ", "n", "o", "t", "e", " ", "f", "r", "o", "m", " ",
              "l", "a", "s", "t", " ", "m", "o", "n", "t", "h", "." >>,
         date |-> setMonthBack(clock) ],
       [ text |->
           << "A", "n", " ", "e", "n", "t", "r", "y", " ", "f", "r", "o",
              "m", " ", "J", "u", "l", "y", " ", "2", "0", "2", "4", "." >>,
         date |-> 1721037600 ],
       [ text |->
           << "T", "h", "i", "n", "k", "i", "n", "g", " ", "a", "b", "o",
              "u", "t", " ", "t", "h", "e", " ", "n", "e", "w", " ", "y",
              "e", "a", "r", ",", " ", "b", "a", "c", "k", " ", "i", "n",
              " ", "J", "a", "n", "u", "a", "r", "y", " ", "2", "0", "2",
              "4", "." >>,
         date |-> 1705764600 ],
       [ text |->
           << "A", " ", "m", "e", "m", "o", "r", "y", " ", "f", "r", "o",
              "m", " ", "a", " ", "d", "i", "f", "f", "e", "r", "e", "n",
              "t", " ", "y", "e", "a", "r", " ", "e", "n", "t", "i", "r",
              "e", "l", "y", "." >>,
         date |-> 1699185600 ] >>

\* batch.set of one document per sample, each under a generated id
RECURSIVE setSamples(_, _, _)
setSamples(docs, taken, samples) ==
    IF samples = <<>> THEN docs
    ELSE setSamples(Append(docs, [ id        |-> freshId(taken),
                                   text      |-> Head(samples).text,
                                   timestamp |-> Head(samples).date ]),
                    taken \cup { freshId(taken) }, Tail(samples))

\* loadSampleData (lines 225-250): the documents afterwards; nothing is
\* written without a user or while a load is under way (line 226)
loadSampleData(u, loading, clock, docs, taken) ==
    IF u = NoUser \/ loading THEN docs ELSE setSamples(docs, taken, sampleNotes(clock))

\* deleteNote (line 202)
deleteNote(u, id, docs) ==
    LET keep(d) == d.id # id
    IN  IF u = NoUser THEN docs ELSE SelectSeq(docs, keep)

\* variant: setDoc, the document is replaced by the fields given
setDocText(docs, id, text) ==
    [i \in 1..Len(docs) |->
        IF docs[i].id = id THEN [id |-> id, text |-> text] ELSE docs[i]]

\* updateDoc(ref, { text }): the text field of document id is set, the
\* other fields stay; a document that does not exist is not created
updateDoc(docs, id, text) ==
    [i \in 1..Len(docs) |->
        IF docs[i].id = id THEN [docs[i] EXCEPT !.text = text] ELSE docs[i]]

\* saveEdit (lines 219-222): the documents afterwards
saveEdit(u, editing, text, docs) ==
    IF u # NoUser /\ editing # NoNote THEN updateDoc(docs, editing[1].id, text)
    ELSE docs

\* the notes the page shows with their buttons: today's, and those of the
\* expanded months when the past section is open (lines 310-322)
shownNotes ==
    LET st == rendered.structuredPastNotes
    IN  { rendered.todayNotes[i] : i \in 1..Len(rendered.todayNotes) }
        \cup
        ( IF Len(rendered.pastNotesRaw) > 0 /\ showPastNotes
          THEN UNION { UNION { UNION { { st[y][i].val[d][j] : j \in 1..Len(st[y][i].val[d]) } :
                                       d \in DOMAIN st[y][i].val } :
                               i \in { k \in 1..Len(st[y]) :
                                         truthy(expandedItems, ToString(y) \o "-" \o st[y][k].key) } } :
                       y \in { z \in DOMAIN st : truthy(expandedItems, ToString(z)) } }
          ELSE {} )

\* editingNote?.id === note.id (lines 282, 286)
isEditing(editing, n) == editing # NoNote /\ editing[1].id = n.id

\* click on the edit button of a shown note (line 286)
StartEditing(n) ==
    /\ ~crashed
    /\ user # NoUser
    /\ ~isEditing(editingNote, n)
    /\ editingNote' = <<n>>
    /\ editText' = n.text
    /\ lastCall' = NoCall
    /\ UNCHANGED <<user, store>>
    /\ UNCHANGED <<recordingVars, pageVars, sessionVars>>

\* onChange of the edit field of the note being edited (line 282)
SetEditText(text) ==
    /\ ~crashed
    /\ user # NoUser
    /\ \E n \in shownNotes : isEditing(editingNote, n)
    /\ text # editText
    /\ editText' = text
    /\ lastCall' = NoCall
    /\ UNCHANGED <<user, store, editingNote>>
    /\ UNCHANGED <<recordingVars, pageVars, sessionVars>>

\* largest number of requests awaited at a time: no button is clicked while
\* that many are under way
MaxPending == 2

\* click on the save button, shown on the note being edited (line 286):
\* saveEdit up to the await of updateDoc (line 220).  The request is under
\* way when the handler gives way; updateDoc will be rejected with not-found
\* when the document is gone.
SaveEdit ==
    /\ ~crashed
    /\ user # NoUser
    /\ \E n \in shownNotes : isEditing(editingNote, n)
    /\ Len(pending) < MaxPending
    /\ store' = saveEdit(user, editingNote, editText, store)
    /\ pending' = Append(pending,
                         [handler |-> "saveEdit",
                          error   |-> IF \A i \in 1..Len(store) : store[i].id # editingNote[1].id
                                      THEN "not-found" ELSE ""])
    /\ lastCall' = [handler |-> "saveEdit", threw |-> ""]
    /\ UNCHANGED <<user, editingNote, editText>>
    /\ UNCHANGED <<showDeleteConfirm, themeColor, isPreview, subscribed, isLoadingSamples>>
    /\ UNCHANGED recordingVars
    /\ UNCHANGED pageVars

\* click on the X button of the note being edited (line 286): the edit is
\* closed, the text of the edit field stays
CancelEditing ==
    /\ ~crashed
    /\ user # NoUser
    /\ \E n \in shownNotes : isEditing(editingNote, n)
    /\ editingNote' = NoNote
    /\ lastCall' = NoCall
    /\ UNCHANGED <<user, store, editText>>
    /\ UNCHANGED <<recordingVars, pageVars, sessionVars>>

\* click on the delete button of a shown note that is not being edited
\* (line 286)
DeleteNote(n) ==
    /\ ~crashed
    /\ user # NoUser
    /\ ~isEditing(editingNote, n)
    /\ store' = deleteNote(user, n.id, store)
    /\ lastCall' = NoCall
    /\ UNCHANGED <<user, editingNote, editText>>
    /\ UNCHANGED <<recordingVars, sessionVars>>
    /\ UNCHANGED pageVars

\* largest number of documents in the collection after a load of the seven
\* samples
MaxLoaded == 8

\* click on "Load Samples", shown while the note list is empty and disabled
\* while a load is under way (line 301): loadSampleData up to the await of
\* batch.commit (lines 226-243)
LoadSampleData ==
    /\ ~crashed
    /\ user # NoUser
    /\ Len(notes) = 0
    /\ ~isLoadingSamples
    /\ Len(pending) < MaxPending
    /\ store' = loadSampleData(user, isLoadingSamples, now, store,
                               knownIds(store, notes, editingNote))
    /\ Len(store') <= MaxLoaded
    /\ isLoadingSamples' = TRUE
    /\ pending' = Append(pending, [handler |-> "loadSampleData", error |-> ""])
    /\ lastCall' = NoCall
    /\ UNCHANGED <<user, editingNote, editText>>
    /\ UNCHANGED <<showDeleteConfirm, themeColor, isPreview, subscribed>>
    /\ UNCHANGED recordingVars
    /\ UNCHANGED pageVars

\* what leaves a handler whose request was rejected with code: nothing when
\* the request sits in a try block or carries a .catch, as in loadSampleData
\* (lines 228-246) and the sign-in button (line 110), the rejection otherwise
rejection(handler, code) ==
    IF handler \in { "loadSampleData", "signInWithPopup" } THEN "" ELSE code

\* the oldest request under way settles and the handler that awaits it goes
\* on: saveEdit closes the edit (line 221) and handleConfirmDelete the
\* dialog (line 216), neither when the request was rejected; loadSampleData
\* resets isLoadingSamples either way (line 248)
RequestSettles ==
    /\ ~crashed
    /\ pending # <<>>
    /\ LET e == Head(pending)
           done(h) == e.handler = h /\ e.error = ""
       IN  /\ editingNote' = IF done("saveEdit") THEN NoNote ELSE editingNote
           /\ editText' = IF done("saveEdit") THEN <<>> ELSE editText
           /\ showDeleteConfirm' = IF done("handleConfirmDelete") THEN NoSelection
                                   ELSE showDeleteConfirm
           /\ isLoadingSamples' = IF e.handler = "loadSampleData" THEN FALSE
                                  ELSE isLoadingSamples
           /\ lastCall' = [handler |-> "settled", request |-> e.handler,
                           threw   |-> rejection(e.handler, e.error)]
    /\ pending' = Tail(pending)
    /\ UNCHANGED <<user, store>>
    /\ UNCHANGED <<themeColor, isPreview, subscribed>>
    /\ UNCHANGED recordingVars
    /\ UNCHANGED pageVars

\* the page opened on the empty collection
InitStore == OpenedOn({ <<>> }, PageClocks) /\ WithSpeech /\ isPreview = FALSE

NextStore ==
    \/ \E n \in shownNotes : StartEditing(n)
    \/ \E text \in { <<>>, <<"c", " ">> } : SetEditText(text)
    \/ SaveEdit
    \/ CancelEditing
    \/ \E n \in shownNotes : DeleteNote(n)
    \/ LoadSampleData
    \/ RequestSettles
    \/ \E u \in { NoUser, Uid } : OnAuthStateChanged(u)
    \/ SnapshotArrives

SpecStore == InitStore /\ [][NextStore]_vars

----------------------------------------------------------------------------
(* Batch delete behind the confirmation dialog (lines 203-217, 336-345) *)

\* the ids of a list of notes
idsOf(ns) == { ns[i].id : i \in 1..Len(ns) }

\* variant: a month selection is matched on its year alone
selectedByYear(sel, n) ==
    IF ~hasTimestamp(n) THEN FALSE
    ELSE IF sel.type = "year" THEN getFullYear(n.timestamp) = sel.year
    ELSE IF sel.type = "month" THEN getFullYear(n.timestamp) = sel.year
    ELSE FALSE

\* the filter of lines 206-211: does the year or month selection name n
selected(sel, n) ==
    IF ~hasTimestamp(n) THEN FALSE
    ELSE IF sel.type = "year" THEN getFullYear(n.timestamp) = sel.year
    ELSE IF sel.type = "month"
         THEN getFullYear(n.timestamp) = sel.year /\ monthLong(n.timestamp) = sel.month
    ELSE FALSE

\* toDelete (lines 206-211): the whole note list, or its notes selected
toDelete(sel, ns) ==
    LET keep(n) == selected(sel, n)
    IN  IF sel.type = "all" THEN ns ELSE SelectSeq(ns, keep)

\* writeBatch / batch.delete / batch.commit (lines 213-215): the documents
\* with the ids given are gone; deleting a document that is not there does
\* nothing
batchDelete(docs, ids) ==
    LET keep(d) == d.id \notin ids
    IN  SelectSeq(docs, keep)

\* handleConfirmDelete (lines 204-215): the collection and the dialog state
\* when the handler gives way, and whether it awaits a commit; an empty
\* target closes the dialog at once (line 212)
handleConfirmDelete(u, sel, ns, docs) ==
    IF u = NoUser \/ sel = NoSelection
    THEN [store |-> docs, showDeleteConfirm |-> sel, commits |-> FALSE]
    ELSE IF Len(toDelete(sel, ns)) = 0
    THEN [store |-> docs, showDeleteConfirm |-> NoSelection, commits |-> FALSE]
    ELSE [store |-> batchDelete(docs, idsOf(toDelete(sel, ns))),
          showDeleteConfirm |-> sel, commits |-> TRUE]

\* the selections the render offers a button for: "Delete All" while the
\* list is not empty (line 300), every year of the hierarchy when the past
\* section is open (line 315), every month of an expanded year (line 318)
deleteSelections ==
    LET st == rendered.structuredPastNotes
    IN  (IF Len(notes) > 0 THEN { [type |-> "all"] } ELSE {})
        \cup
        (IF Len(rendered.pastNotesRaw) > 0 /\ showPastNotes
         THEN { [type |-> "year", year |-> y] : y \in DOMAIN st }
              \cup UNION { { [type |-> "month", year |-> y, month |-> st[y][i].key] :
                               i \in 1..Len(st[y]) } :
                           y \in { z \in DOMAIN st : truthy(expandedItems, ToString(z)) } }
         ELSE {})

\* handleDeleteSelection (line 203), from one of the delete buttons, which
\* stay within reach under the open dialog
HandleDeleteSelection(s) ==
    /\ ~crashed
    /\ user # NoUser
    /\ showDeleteConfirm' = s
    /\ lastCall' = NoCall
    /\ UNCHANGED <<themeColor, isPreview, subscribed, isLoadingSamples, pending>>
    /\ UNCHANGED <<storeVars, recordingVars, pageVars>>

\* the Cancel button of the dialog (line 341)
CancelDelete ==
    /\ ~crashed
    /\ user # NoUser
    /\ showDeleteConfirm # NoSelection
    /\ showDeleteConfirm' = NoSelection
    /\ lastCall' = NoCall
    /\ UNCHANGED <<themeColor, isPreview, subscribed, isLoadingSamples, pending>>
    /\ UNCHANGED <<storeVars, recordingVars, pageVars>>

\* the Delete button of the dialog (line 342): handleConfirmDelete up to
\* the await of batch.commit (line 215), the commit succeeding
HandleConfirmDelete ==
    /\ ~crashed
    /\ user # NoUser
    /\ showDeleteConfirm # NoSelection
    /\ LET r == handleConfirmDelete(user, showDeleteConfirm, notes, store)
       IN  /\ r.commits => Len(pending) < MaxPending
           /\ store' = r.store
           /\ showDeleteConfirm' = r.showDeleteConfirm
           /\ pending' = IF r.commits
                         THEN Append(pending, [handler |-> "handleConfirmDelete", error |-> ""])
                         ELSE pending
    /\ lastCall' = [handler   |-> "handleConfirmDelete", threw |-> "",
                    selection |-> showDeleteConfirm,
                    deleted   |-> idsOf(store) \ idsOf(store')]
    /\ UNCHANGED <<user, editingNote, editText>>
    /\ UNCHANGED <<themeColor, isPreview, subscribed, isLoadingSamples>>
    /\ UNCHANGED recordingVars
    /\ UNCHANGED pageVars

\* another device adds a document to the collection, or deletes one; the
\* snapshot that tells this page has not arrived yet
\* (i is a position in NoteUniverse)
RemoteAdd(i) ==
    /\ NoteUniverse[i].id \notin idsOf(store)
    /\ NoteUniverse[i].id \notin idsOf(notes)
    /\ store' = Append(store, NoteUniverse[i])
    /\ lastCall' = NoCall
    /\ UNCHANGED <<user, editingNote, editText>>
    /\ UNCHANGED <<recordingVars, pageVars, sessionVars>>

RemoteDelete(i) ==
    /\ NoteUniverse[i].id \in idsOf(store)
    /\ store' = batchDelete(store, { NoteUniverse[i].id })
    /\ lastCall' = NoCall
    /\ UNCHANGED <<user, editingNote, editText>>
    /\ UNCHANGED <<recordingVars, pageVars, sessionVars>>

\* the page opened on notes of January and July 2024, of November 2023, of
\* today, and one without a timestamp
InitDelete == OpenedOn({ docsAt({1, 4, 5, 6, 7}) }, PageClocks) /\ WithSpeech /\ isPreview = FALSE

NextDelete ==
    \/ \E s \in deleteSelections : HandleDeleteSelection(s)
    \/ CancelDelete
    \/ HandleConfirmDelete
    \/ RequestSettles
    \/ \E i \in { 2 } : RemoteAdd(i)
    \/ \E i \in { 1 } : RemoteDelete(i)
    \/ SnapshotArrives
    \/ \E term \in { <<>>, <<"a">> } : SetSearchTerm(term)
    \/ TogglePastNotes

SpecDelete == InitDelete /\ [][NextDelete]_vars

----------------------------------------------------------------------------
(* Account changes and subscription errors (lines 150-176) *)

\* variant: the error is only logged
onSnapshotErrorLogged(error) == NoError

\* onSnapshot error callback (lines 166-173): the message stored
onSnapshotError(error) ==
    IF error.code = "permission-denied"
    THEN "Permission Denied: Your Firestore security rules have likely expired. Please update them in the Firebase console to allow access."
    ELSE "Database error: " \o error.message

\* the errors the subscription reports
SubscriptionErrors ==
    { [code |-> "permission-denied", message |-> "Missing or insufficient permissions."],
      [code |-> "unavailable",       message |-> "The service is currently unavailable."] }

\* the listener is called with an error; the store calls it no more
OnSnapshotError(error) ==
    /\ ~crashed
    /\ user # NoUser
    /\ subscribed
    /\ firestoreError' = onSnapshotError(error)
    /\ subscribed' = FALSE
    /\ lastCall' = NoCall
    /\ UNCHANGED <<notes, searchTerm, expandedItems, showPastNotes, rendered, now, crashed, openedBy>>
    /\ UNCHANGED <<showDeleteConfirm, themeColor, isPreview, isLoadingSamples, pending>>
    /\ UNCHANGED <<storeVars, recordingVars>>

\* the page opened by the first account, deployed or in the preview
InitSubscription ==
    /\ OpenedOn({ docsAt({1, 6}) }, PageClocks)
    /\ WithSpeech
    /\ isPreview \in BOOLEAN

NextSubscription ==
    \/ \E u \in { NoUser, Uid, "u2" } : OnAuthStateChanged(u)
    \/ \E error \in SubscriptionErrors : OnSnapshotError(error)
    \/ SnapshotArrives
    \/ \E i \in { 2 } : RemoteAdd(i)
    \/ \E term \in { <<>>, <<"a">> } : SetSearchTerm(term)
    \/ TogglePastNotes

SpecSubscription == InitSubscription /\ [][NextSubscription]_vars

----------------------------------------------------------------------------
(* Requests the service rejects (lines 110, 201-250) *)

\* the codes a request to the store or to the identity provider is
\* rejected with
ServiceErrors == { "permission-denied" }

\* r.onend (line 186) with a transcript, addDoc being rejected (line 201)
AddNoteRejected(h, code) ==
    /\ ~crashed
    /\ recognitions[h].state # "idle"
    /\ recognitions[h].user # NoUser
    /\ trim(transcriptRef) # <<>>
    /\ isRecording' = FALSE
    /\ recognitions' = alive([recognitions EXCEPT ![h] = newRecognition(@.lang, @.user)],
                             recognitionRef)
    /\ lastCall' = [handler |-> "addNote", threw |-> rejection("addNote", code)]
    /\ UNCHANGED <<micError, language, recognitionRef, transcriptRef>>
    /\ UNCHANGED <<storeVars, pageVars, sessionVars>>

\* click on the delete button of a shown note, deleteDoc being rejected
\* (line 202)
DeleteNoteRejected(n, code) ==
    /\ ~crashed
    /\ user # NoUser
    /\ ~isEditing(editingNote, n)
    /\ lastCall' = [handler |-> "deleteNote", threw |-> rejection("deleteNote", code)]
    /\ UNCHANGED <<storeVars, recordingVars, pageVars, sessionVars>>

\* click on the save button, updateDoc going to be rejected (line 220):
\* nothing is written
SaveEditRejected(code) ==
    /\ ~crashed
    /\ user # NoUser
    /\ \E n \in shownNotes : isEditing(editingNote, n)
    /\ Len(pending) < MaxPending
    /\ pending' = Append(pending, [handler |-> "saveEdit", error |-> code])
    /\ lastCall' = [handler |-> "saveEdit", threw |-> ""]
    /\ UNCHANGED <<showDeleteConfirm, themeColor, isPreview, subscribed, isLoadingSamples>>
    /\ UNCHANGED <<storeVars, recordingVars, pageVars>>

\* the Delete button of the dialog, batch.commit going to be rejected
\* (line 215): nothing is deleted
HandleConfirmDeleteRejected(code) ==
    /\ ~crashed
    /\ user # NoUser
    /\ showDeleteConfirm # NoSelection
    /\ Len(toDelete(showDeleteConfirm, notes)) > 0
    /\ Len(pending) < MaxPending
    /\ pending' = Append(pending, [handler |-> "handleConfirmDelete", error |-> code])
    /\ lastCall' = NoCall
    /\ UNCHANGED <<showDeleteConfirm, themeColor, isPreview, subscribed, isLoadingSamples>>
    /\ UNCHANGED <<storeVars, recordingVars, pageVars>>

\* click on "Load Samples", batch.commit going to be rejected (line 243):
\* nothing is written, isLoadingSamples is set (line 227)
LoadSampleDataRejected(code) ==
    /\ ~crashed
    /\ user # NoUser
    /\ Len(notes) = 0
    /\ ~isLoadingSamples
    /\ Len(pending) < MaxPending
    /\ isLoadingSamples' = TRUE
    /\ pending' = Append(pending, [handler |-> "loadSampleData", error |-> code])
    /\ lastCall' = NoCall
    /\ UNCHANGED <<showDeleteConfirm, themeColor, isPreview, subscribed>>
    /\ UNCHANGED <<storeVars, recordingVars, pageVars>>

\* click on "Sign in with Google", the popup being rejected (line 110): the
\* .catch alerts
SignInRejected(code) ==
    /\ ~crashed
    /\ user = NoUser
    /\ lastCall' = [handler |-> "signInWithPopup", threw |-> rejection("signInWithPopup", code)]
    /\ UNCHANGED <<storeVars, recordingVars, pageVars, sessionVars>>

\* the page opened on the note of today
InitFailure == OpenedOn({ docsAt({6}) }, PageClocks) /\ WithSpeech /\ isPreview = FALSE

NextFailure ==
    \/ HandleRecordStart
    \/ \E h \in DOMAIN recognitions : \E transcript \in Transcripts : OnResult(h, transcript)
    \/ \E h \in DOMAIN recognitions : OnEnd(h)
    \/ \E h \in DOMAIN recognitions : \E code \in ServiceErrors : AddNoteRejected(h, code)
    \/ \E n \in shownNotes : StartEditing(n)
    \/ \E code \in ServiceErrors : SaveEditRejected(code)
    \/ \E n \in shownNotes : \E code \in ServiceErrors : DeleteNoteRejected(n, code)
    \/ \E s \in deleteSelections : HandleDeleteSelection(s)
    \/ CancelDelete
    \/ \E code \in ServiceErrors : HandleConfirmDeleteRejected(code)
    \/ \E code \in ServiceErrors : LoadSampleDataRejected(code)
    \/ RequestSettles
    \/ \E u \in { NoUser, Uid } : OnAuthStateChanged(u)
    \/ SnapshotArrives
    \/ \E code \in ServiceErrors : SignInRejected(code)

SpecFailure == InitFailure /\ [][NextFailure]_vars

----------------------------------------------------------------------------
(* Color utility: shadeColor (lines 88-102) *)

HexDigits ==
    << "0", "1", "2", "3", "4", "5", "6", "7", "8", "9", "a", "b", "c", "d", "e", "f" >>

\* the value of one hexadecimal digit (the color input gives lower case)
hexDigitValue(c) == (CHOOSE i \in 1..16 : HexDigits[i] = c) - 1

\* R = parseInt(R * (100 + percent) / 100); R = (R < 255) ? R : 255
\* parseInt cuts the fraction off, toward zero
scaleChannel(v, percent) ==
    LET r == IF v * (100 + percent) >= 0
             THEN (v * (100 + percent)) \div 100
             ELSE -((-(v * (100 + percent))) \div 100)
    IN  IF r < 255 THEN r ELSE 255

\* Number.prototype.toString(16): the digits of the magnitude, behind a
\* minus sign when the number is negative
RECURSIVE magnitudeToString16(_)
magnitudeToString16(v) ==
    IF v < 16 THEN << HexDigits[v + 1] >>
    ELSE magnitudeToString16(v \div 16) \o << HexDigits[(v % 16) + 1] >>

\* one channel: parseInt(color.substring(i, i + 2), 16), scaled, then
\* (R.toString(16).length == 1) ? "0" + R.toString(16) : R.toString(16)
channelOf(pair, percent) ==
    LET v == scaleChannel(16 * hexDigitValue(pair[1]) + hexDigitValue(pair[2]), percent)
        str == IF v < 0 THEN << "-" >> \o magnitudeToString16(-v)
               ELSE magnitudeToString16(v)
    IN  IF Len(str) = 1 THEN << "0" >> \o str ELSE str

shadeColor(color, percent) ==
    << "#" >> \o channelOf(SubSeq(color, 2, 3), percent)
              \o channelOf(SubSeq(color, 4, 5), percent)
              \o channelOf(SubSeq(color, 6, 7), percent)

\* onChange of the color input (line 298)
SetThemeColor(c) ==
    /\ ~crashed
    /\ c # themeColor
    /\ themeColor' = c
    /\ lastCall' = NoCall
    /\ UNCHANGED <<showDeleteConfirm, isPreview, subscribed, isLoadingSamples, pending>>
    /\ UNCHANGED <<storeVars, recordingVars, pageVars>>

\* a call of shadeColor on the theme color, its arguments and its result
\* being remembered
ShadeColor(percent) ==
    /\ ~crashed
    /\ lastCall' = [handler |-> "shadeColor", threw |-> "",
                    color   |-> themeColor, percent |-> percent,
                    result  |-> shadeColor(themeColor, percent)]
    /\ UNCHANGED <<storeVars, recordingVars, pageVars, sessionVars>>

\* the colors picked, and the percentages: those of the render (20, -10,
\* 40, -20, -5, lines 259-260, 294), 0, and others down to -200 and up to 300
NextTheme ==
    \/ \E c \in { DefaultThemeColor,
                  << "#", "8", "0", "8", "0", "8", "0" >>,
                  << "#", "0", "0", "0", "0", "0", "0" >>,
                  << "#", "f", "f", "f", "f", "f", "f" >>,
                  << "#", "f", "f", "8", "0", "0", "0" >>,
                  << "#", "0", "a", "0", "b", "0", "c" >>,
                  << "#", "0", "1", "0", "2", "0", "3" >> } : SetThemeColor(c)
    \/ \E percent \in { -200, -150, -101, -100, -99, -50, -20, -10, -5,
                        0, 5, 20, 40, 100, 300 } : ShadeColor(percent)

SpecTheme == Init /\ [][NextTheme]_vars

----------------------------------------------------------------------------
(* The order in which the hierarchy is rendered (lines 314-322) *)

\* Object.keys(obj).sort((a, b) => b - a) on numeric keys: largest first
RECURSIVE sortDescending(_)
sortDescending(S) ==
    IF S = {} THEN <<>>
    ELSE << CHOOSE x \in S : \A y \in S : y <= x >>
           \o sortDescending(S \ { CHOOSE x \in S : \A y \in S : y <= x })

\* the years in the order of line 314
yearsRendered(st) == sortDescending(DOMAIN st)

\* variant: the months in the reverse of their insertion
monthsRenderedReversed(st, y) == [i \in 1..Len(st[y]) |-> st[y][Len(st[y]) - i + 1].key]

\* the months of year y in the order of line 317: Object.keys, which lists
\* string keys in the order of their insertion
monthsRendered(st, y) == [i \in 1..Len(st[y]) |-> st[y][i].key]

\* the days of the i-th month of year y in the order of line 320
daysRendered(st, y, i) == sortDescending(DOMAIN st[y][i].val)

\* the notes of a day in the order of line 322
notesRendered(st, y, i, d) == st[y][i].val[d]

----------------------------------------------------------------------------
(* The two older variants (src/unnamed/part_000 and part_001): their        *)
(* grouping, their search expansion effect and the page around them         *)

\* note.timestamp && note.timestamp.toDate().toDateString() !== todayString
olderPastNotesRaw(ns, term, clock) ==
    LET keep(n) == hasTimestamp(n) /\ isNotToday(n, clock)
    IN  SelectSeq(filteredNotes(ns, term), keep)

\* pastMatchingNotes: the notes of another day than today that match the
\* term; a note without a timestamp is not among them
pastMatchingNotes(ns, term, clock) ==
    LET keep(n) == matchesTerm(n, term) /\ hasTimestamp(n) /\ isNotToday(n, clock)
    IN  SelectSeq(ns, keep)

\* variant: the keys are merged into the previous state
olderSearchExpansionEffectMerging(ns, term, prev, show) ==
    IF trim(term) = <<>>
    THEN [expandedItems |-> EmptyObject, showPastNotes |-> show]
    ELSE [expandedItems |-> spread(prev, newExpandedOf(ns)),
          showPastNotes |-> IF Len(ns) > 0 THEN TRUE ELSE show]

\* the effect on [searchTerm, notes], ns being the pastMatchingNotes: a
\* blank term sets the empty object, any other term the object of the keys
\* of the matches
olderSearchExpansionEffect(ns, term, prev, show) ==
    IF trim(term) = <<>>
    THEN [expandedItems |-> EmptyObject, showPastNotes |-> show]
    ELSE [expandedItems |-> newExpandedOf(ns),
          showPastNotes |-> IF Len(ns) > 0 THEN TRUE ELSE show]

\* the derived data of one render of the older variants, which read the
\* clock once (part_000 lines 351-355)
OlderRerender ==
    rendered' =
      [ mounted             |-> TRUE,
        filteredNotes       |-> filteredNotes(notes', searchTerm'),
        todayNotes          |-> todayNotes(notes', searchTerm', [i \in 1..Len(notes') |-> now']),
        pastNotesRaw        |-> olderPastNotesRaw(notes', searchTerm', now'),
        structuredPastNotes |->
            reduceStructure(EmptyObject, olderPastNotesRaw(notes', searchTerm', now')) ]

RunOlderEffect(ns, term) ==
    LET r == olderSearchExpansionEffect(pastMatchingNotes(ns, term, now), term,
                                        expandedItems, showPastNotes)
    IN  /\ expandedItems' = r.expandedItems
        /\ showPastNotes' = r.showPastNotes
        /\ openedBy' = spread(openedBy,
               [k \in { x \in DOMAIN r.expandedItems :
                          r.expandedItems[x] /\ ~truthy(expandedItems, x) }
                  |-> "auto"])

\* onSnapshot success callback of the older variants: sort and replace the
\* list; the new list re-runs the effect
OlderOnSnapshot(docs) ==
    /\ notes' = sortNotes(docs)
    /\ RunOlderEffect(notes', searchTerm)
    /\ UNCHANGED <<searchTerm, now, crashed, firestoreError>>
    /\ UNCHANGED <<storeVars, recordingVars, sessionVars, lastCall>>
    /\ OlderRerender

\* onChange of the search input of the older variants
OlderSetSearchTerm(term) ==
    /\ term # searchTerm
    /\ searchTerm' = term
    /\ RunOlderEffect(notes, term)
    /\ UNCHANGED <<notes, now, crashed, firestoreError>>
    /\ UNCHANGED <<storeVars, recordingVars, sessionVars, lastCall>>
    /\ OlderRerender

\* click on the button of a year or of a month in the older variants
OlderToggleExpand(key) ==
    /\ expandedItems' = toggleExpand(expandedItems, key)
    /\ openedBy' = IF truthy(expandedItems', key) THEN put(openedBy, key, "user")
                   ELSE openedBy
    /\ UNCHANGED <<notes, searchTerm, showPastNotes, now, crashed, firestoreError>>
    /\ UNCHANGED <<storeVars, recordingVars, sessionVars, lastCall>>
    /\ OlderRerender

\* click on the "Past Entries" header in the older variants
OlderTogglePastNotes ==
    /\ Len(rendered.pastNotesRaw) > 0
    /\ showPastNotes' = ~showPastNotes
    /\ UNCHANGED <<notes, searchTerm, expandedItems, now, crashed, openedBy, firestoreError>>
    /\ UNCHANGED <<storeVars, recordingVars, sessionVars, lastCall>>
    /\ OlderRerender

\* the steps of the older page around its list and its search; those around
\* its notes, its dialog, its microphone and its account follow below
NextOlder ==
    \/ \E docs \in SnapshotsUpTo(MaxDocs, LiveDocs) : OlderOnSnapshot(docs)
    \/ \E term \in Terms : OlderSetSearchTerm(term)
    \/ \E key \in renderedKeys : OlderToggleExpand(key)
    \/ OlderTogglePastNotes

SpecOlder == Init /\ [][NextOlder]_vars

----------------------------------------------------------------------------
(* The older variants: notes, confirmation dialog, recording and account   *)
(* (part_001 lines 189-256, 287-363; part_000 lines 160-229, 260-336)      *)

\* click on "Delete All", shown while the list is not empty (part_001 lines
\* 311-313, 474-482): setShowDeleteConfirm(true).  The dialog of the older
\* variants stands for the whole collection, the selection of type "all".
OlderDeleteAllNotes ==
    /\ user # NoUser
    /\ Len(notes) > 0
    /\ showDeleteConfirm' = [type |-> "all"]
    /\ lastCall' = NoCall
    /\ UNCHANGED <<themeColor, isPreview, subscribed, isLoadingSamples, pending>>
    /\ UNCHANGED <<storeVars, recordingVars, pageVars>>

\* the "Delete All" button of the dialog (part_001 line 595):
\* handleConfirmDeleteAll up to the await of getDocs (lines 316-320).  The
\* query is under way when the handler gives way; it is answered with the
\* documents the collection holds now, or rejected with code.
OlderHandleConfirmDeleteAll(code) ==
    /\ user # NoUser
    /\ showDeleteConfirm # NoSelection
    /\ Len(pending) < MaxPending
    /\ pending' = Append(pending, [handler |-> "getDocs", error |-> code,
                                   docs    |-> idsOf(collectionOf(user, store))])
    /\ lastCall' = NoCall
    /\ UNCHANGED <<showDeleteConfirm, themeColor, isPreview, subscribed, isLoadingSamples>>
    /\ UNCHANGED <<storeVars, recordingVars, pageVars>>

\* the oldest request under way settles and the handler that awaits it goes
\* on.  saveEdit closes the edit when updateDoc succeeded (part_001 lines
\* 343-345).  handleConfirmDeleteAll, answered by getDocs, deletes every
\* document of the answer in one batch and awaits the commit, which is
\* rejected with code or succeeds (lines 321-326); after the commit, and
\* after a rejected getDocs, it closes the dialog (line 330).  Every
\* rejection is caught and logged (lines 295, 306, 327, 347).
OlderRequestSettles(code) ==
    /\ pending # <<>>
    /\ LET e == Head(pending)
           done(h) == e.handler = h /\ e.error = ""
       IN  /\ code # "" => done("getDocs")
           /\ editingNote' = IF done("saveEdit") THEN NoNote ELSE editingNote
           /\ editText' = IF done("saveEdit") THEN <<>> ELSE editText
           /\ store' = IF done("getDocs") /\ code = "" THEN batchDelete(store, e.docs)
                       ELSE store
           /\ pending' = IF done("getDocs")
                         THEN Append(Tail(pending), [handler |-> "batch.commit", error |-> code])
                         ELSE Tail(pending)
           /\ showDeleteConfirm' = IF e.handler = "batch.commit"
                                      \/ (e.handler = "getDocs" /\ e.error # "")
                                   THEN NoSelection ELSE showDeleteConfirm
           /\ lastCall' = [handler |-> "settled", request |-> e.handler, threw |-> ""]
    /\ UNCHANGED user
    /\ UNCHANGED <<themeColor, isPreview, subscribed, isLoadingSamples>>
    /\ UNCHANGED recordingVars
    /\ UNCHANGED pageVars

\* recognition.onerror of the older variants (part_001 lines 242-246): the
\* session of object h fails
OlderOnError(h, code) ==
    /\ recognitions[h].state = "listening"
    /\ micError' = "Speech recognition error: " \o code
    /\ isRecording' = FALSE
    /\ recognitions' = [recognitions EXCEPT ![h].state = "ending"]
    /\ lastCall' = NoCall
    /\ UNCHANGED <<language, recognitionRef, transcriptRef>>
    /\ UNCHANGED <<storeVars, pageVars, sessionVars>>

\* onAuthStateChanged callback of part_001 (lines 194-197), called with
\* null after "Sign Out" (line 484) and with the account after the sign-in
\* screen (lines 126-133, 447-449), and the effects the new user re-runs:
\* the data effect (lines 202-222) empties the list or subscribes, the
\* setup effect (lines 225-256) creates a new recognition object.  In
\* part_000 (lines 161-170) a null user is not stored.
OlderOnAuthStateChanged(u) ==
    /\ ~(u # NoUser /\ user # NoUser)
    /\ u # user
    /\ user' = u
    /\ RunSetup(language, u)
    /\ subscribed' = (u # NoUser)
    /\ IF u = NoUser
       THEN /\ notes' = <<>>
            /\ RunOlderEffect(notes', searchTerm)
            /\ UNCHANGED <<searchTerm, now, crashed, firestoreError>>
            /\ OlderRerender
       ELSE UNCHANGED pageVars
    /\ lastCall' = NoCall
    /\ UNCHANGED <<store, editingNote, editText, isRecording, language, transcriptRef>>
    /\ UNCHANGED <<showDeleteConfirm, themeColor, isPreview, isLoadingSamples, pending>>

\* the older page opened on the note of today, or on it and the note of
\* January 2024 (part_001 lines 155-170, 211-216)
InitOlderStore ==
    OpenedOn({ docsAt({6}), docsAt({1, 6}) }, PageClocks) /\ WithSpeech /\ isPreview = FALSE

\* The steps of the older page around its notes.  Where the older code is
\* that of src/src/App.jsx the action is shared: startEditing (part_001
\* lines 333-336), the edit field and the X button (lines 406, 420), saveEdit
\* up to its await (lines 338-342), deleteNote (lines 301-305) and the
\* Cancel button of the dialog (line 589).  The listener is called with the
\* documents of the collection as they are now (lines 211-216).
NextOlderStore ==
    \/ \E n \in shownNotes : StartEditing(n)
    \/ \E text \in { <<"c", " ">> } : SetEditText(text)
    \/ SaveEdit
    \/ \E code \in ServiceErrors : SaveEditRejected(code)
    \/ CancelEditing
    \/ \E n \in shownNotes : DeleteNote(n)
    \/ OlderDeleteAllNotes
    \/ CancelDelete
    \/ \E code \in { "" } \cup ServiceErrors : OlderHandleConfirmDeleteAll(code)
    \/ \E code \in { "" } \cup ServiceErrors : OlderRequestSettles(code)
    \/ \E i \in { 2 } : RemoteAdd(i)
    \/ user # NoUser /\ subscribed /\ OlderOnSnapshot(collectionOf(user, store))

SpecOlderStore == InitOlderStore /\ [][NextOlderStore]_vars

\* The steps of the older page around its microphone and its account.  The
\* shared actions: handleRecordStart and handleRecordStop (part_001 lines
\* 353-363), onresult (lines 237-240), onend with addNote (lines 248-253,
\* 288-294) and the language select (line 467).
NextOlderRecording ==
    \/ HandleRecordStart
    \/ HandleRecordStop
    \/ \E h \in DOMAIN recognitions : \E transcript \in Transcripts : OnResult(h, transcript)
    \/ \E h \in DOMAIN recognitions : \E code \in ErrorCodes : OlderOnError(h, code)
    \/ \E h \in DOMAIN recognitions : OnEnd(h)
    \/ \E lang \in { "en-US", "fr-FR" } : SetLanguage(lang)
    \/ \E u \in { NoUser, Uid } : OlderOnAuthStateChanged(u)
    \/ user # NoUser /\ subscribed /\ OlderOnSnapshot(collectionOf(user, store))

SpecOlderRecording == InitOlderStore /\ [][NextOlderRecording]_vars

----------------------------------------------------------------------------
(* Vocabulary of the properties *)

\* the calendar day of every instant used above, written out by hand
Calendar(t) ==
    CASE t = 1705764600 -> [year |-> 2024, month |-> "January",  day |-> 20]
      [] t = 1705788000 -> [year |-> 2024, month |-> "January",  day |-> 20]
      [] t = 1705827600 -> [year |-> 2024, month |-> "January",  day |-> 21]
      [] t = 1721037600 -> [year |-> 2024, month |-> "July",     day |-> 15]
      [] t = 1699185600 -> [year |-> 2023, month |-> "November", day |-> 5]
      [] t = 1793260800 -> [year |-> 2026, month |-> "October",  day |-> 29]
      [] t = 1793264400 -> [year |-> 2026, month |-> "October",  day |-> 29]

\* two characters that differ at most in case
SameLetter(a, b) ==
    \/ a = b
    \/ {a, b} \in { {"A", "a"}, {"B", "b"}, {"C", "c"} }

\* term occurs in text when case is ignored
ContainsIgnoringCase(text, term) ==
    \E k \in 0..(Len(text) - Len(term)) :
        \A j \in 1..Len(term) : SameLetter(text[k + j], term[j])

Range(seq) == { seq[i] : i \in 1..Len(seq) }

Occurrences(seq, n) == Cardinality({ j \in 1..Len(seq) : seq[j].id = n.id })

\* the (year, month position, day) buckets of a hierarchy
BucketsOf(st) ==
    UNION { UNION { { <<y, i, d>> : d \in DOMAIN st[y][i].val } :
                    i \in 1..Len(st[y]) } : y \in DOMAIN st }

BucketAt(st, b) == st[b[1]][b[2]].val[b[3]]

\* the buckets that hold note n
BucketsHolding(st, n) ==
    { b \in BucketsOf(st) : Occurrences(BucketAt(st, b), n) > 0 }

OccurrencesInHierarchy(st, n) ==
    Cardinality({ p \in UNION { { <<b, j>> : j \in 1..Len(BucketAt(st, b)) } :
                                b \in BucketsOf(st) } :
                  BucketAt(st, p[1])[p[2]].id = n.id })

----------------------------------------------------------------------------
(* Grouping properties, checked under SpecGrouping *)

\* C1: every note that has a timestamp and matches the search filter is
\* found exactly once, either in the today list or in one bucket of the
\* hierarchy, whenever the render takes place.
GroupingIsPartition ==
    rendered.mounted =>
        \A k \in 1..Len(notes) :
            (hasTimestamp(notes[k]) /\ ContainsIgnoringCase(notes[k].text, searchTerm))
            => /\ Occurrences(rendered.todayNotes, notes[k])
                    + OccurrencesInHierarchy(rendered.structuredPastNotes, notes[k]) = 1
               /\ Occurrences(rendered.todayNotes, notes[k]) = 1
                    => BucketsHolding(rendered.structuredPastNotes, notes[k]) = {}

\* C2: a note without a timestamp is neither in the today list nor in any
\* bucket of the hierarchy.
NoTimestampNowhere ==
    rendered.mounted =>
        \A k \in 1..Len(notes) :
            ~hasTimestamp(notes[k])
            => /\ Occurrences(rendered.todayNotes, notes[k]) = 0
               /\ OccurrencesInHierarchy(rendered.structuredPastNotes, notes[k]) = 0

\* a note without a timestamp that matches a typed term has been rendered
\* next to notes of today and of the past
NoTimestampNowhereWitness ==
    /\ rendered.mounted
    /\ searchTerm # <<>>
    /\ \E k \in 1..Len(notes) :
          ~hasTimestamp(notes[k]) /\ notes[k] \in Range(rendered.filteredNotes)
    /\ Len(rendered.todayNotes) > 0
    /\ BucketsOf(rendered.structuredPastNotes) # {}

\* C4: every matching note of another day than today lies in the bucket of
\* its own year, month name and day of month; no year, month or day node is
\* empty; the notes of 2024-01-20, 2023-11-05 and now group as in the
\* scenario.
PastNotesInOwnBucket ==
    rendered.mounted =>
        LET st == rendered.structuredPastNotes
        IN  /\ \A k \in 1..Len(notes) :
                 LET n == notes[k]
                 IN  ( /\ hasTimestamp(n)
                       /\ ContainsIgnoringCase(n.text, searchTerm)
                       /\ Calendar(n.timestamp) # Calendar(now) )
                     => LET c == Calendar(n.timestamp)
                        IN  /\ c.year \in DOMAIN st
                            /\ \E i \in 1..Len(st[c.year]) :
                                 /\ st[c.year][i].key = c.month
                                 /\ c.day \in DOMAIN st[c.year][i].val
                                 /\ n \in Range(st[c.year][i].val[c.day])
            /\ \A y \in DOMAIN st :
                 /\ Len(st[y]) > 0
                 /\ \A i \in 1..Len(st[y]) :
                      /\ DOMAIN st[y][i].val # {}
                      /\ \A d \in DOMAIN st[y][i].val : Len(st[y][i].val[d]) > 0
            /\ ( /\ Range(notes) = { NoteUniverse[1], NoteUniverse[5], NoteUniverse[6] }
                 /\ searchTerm = <<>>
                 /\ now = 1793264400 )
               => /\ Len(rendered.todayNotes) = 1
                  /\ st = ( 2024 :> << [ key |-> "January",
                                         val |-> (20 :> << NoteUniverse[1] >>) ] >>
                            @@
                            2023 :> << [ key |-> "November",
                                         val |-> (5 :> << NoteUniverse[5] >>) ] >> )

\* the scenario of the three notes has been rendered
PastNotesInOwnBucketWitness ==
    /\ rendered.mounted
    /\ Range(notes) = { NoteUniverse[1], NoteUniverse[5], NoteUniverse[6] }
    /\ searchTerm = <<>>
    /\ now = 1793264400
    /\ Cardinality(BucketsOf(rendered.structuredPastNotes)) = 2

\* C5: the filtered list holds exactly the notes whose text contains the
\* term when case is ignored, in the order of the collection; it is part of
\* the filtered list of the empty term, which is the whole collection.
FilterIsCaseInsensitiveContains ==
    rendered.mounted =>
        /\ \A k \in 1..Len(notes) :
              notes[k] \in Range(rendered.filteredNotes)
              <=> ContainsIgnoringCase(notes[k].text, searchTerm)
        /\ Len(rendered.filteredNotes) = Cardinality(Range(rendered.filteredNotes))
        /\ Range(rendered.filteredNotes) \subseteq Range(filteredNotes(notes, <<>>))
        /\ filteredNotes(notes, <<>>) = notes

\* the term 'a' has selected a note spelled with 'A' and rejected another
FilterIsCaseInsensitiveContainsWitness ==
    /\ rendered.mounted
    /\ searchTerm = <<"a">>
    /\ Len(rendered.filteredNotes) > 0
    /\ Len(rendered.filteredNotes) < Len(notes)

\* the position in the note list of the first matching note of another day
\* than today that lies in year y and month m
FirstOfMonth(y, m) ==
    CHOOSE k \in 1..Len(notes) :
        /\ hasTimestamp(notes[k])
        /\ ContainsIgnoringCase(notes[k].text, searchTerm)
        /\ Calendar(notes[k].timestamp) # Calendar(now)
        /\ Calendar(notes[k].timestamp).year = y
        /\ Calendar(notes[k].timestamp).month = m
        /\ \A j \in 1..(k - 1) :
             ~ ( /\ hasTimestamp(notes[j])
                 /\ ContainsIgnoringCase(notes[j].text, searchTerm)
                 /\ Calendar(notes[j].timestamp) # Calendar(now)
                 /\ Calendar(notes[j].timestamp).year = y
                 /\ Calendar(notes[j].timestamp).month = m )

\* the position of a note in the note list
PositionOf(n) == CHOOSE k \in 1..Len(notes) : notes[k].id = n.id

\* C26: the years are rendered in descending order, the days of a month in
\* descending order, the months of a year in the order in which the note
\* list (newest first, filtered) first comes to them, and the notes of a day
\* in the order of the note list.
HierarchyOrder ==
    rendered.mounted =>
        LET st == rendered.structuredPastNotes
            ys == yearsRendered(st)
        IN  /\ Range(ys) = DOMAIN st
            /\ \A a, b \in 1..Len(ys) : a < b => ys[a] > ys[b]
            /\ \A y \in DOMAIN st :
                 LET ms == monthsRendered(st, y)
                 IN  /\ Len(ms) = Len(st[y])
                     /\ \A a, b \in 1..Len(ms) :
                          a < b => FirstOfMonth(y, ms[a]) < FirstOfMonth(y, ms[b])
                     /\ \A i \in 1..Len(st[y]) :
                          LET ds == daysRendered(st, y, i)
                          IN  /\ Range(ds) = DOMAIN st[y][i].val
                              /\ \A a, b \in 1..Len(ds) : a < b => ds[a] > ds[b]
                              /\ \A d \in DOMAIN st[y][i].val :
                                   LET ns == notesRendered(st, y, i, d)
                                   IN  \A a, b \in 1..Len(ns) :
                                         a < b => PositionOf(ns[a]) < PositionOf(ns[b])

\* a hierarchy of two years, with two months in one year and two days in
\* one month, has been rendered
HierarchyOrderWitness ==
    /\ rendered.mounted
    /\ Cardinality(DOMAIN rendered.structuredPastNotes) >= 2
    /\ \E y \in DOMAIN rendered.structuredPastNotes :
          /\ Len(rendered.structuredPastNotes[y]) >= 2
          /\ \E i \in 1..Len(rendered.structuredPastNotes[y]) :
                Cardinality(DOMAIN rendered.structuredPastNotes[y][i].val) >= 2

\* C30: the "Past Entries" section is rendered if and only if the date
\* hierarchy has at least one bucket; notes without a timestamp alone do
\* not make it appear.
PastSectionIffBuckets ==
    rendered.mounted
    => (showsPastEntries(rendered) <=> BucketsOf(rendered.structuredPastNotes) # {})

----------------------------------------------------------------------------
(* Expansion properties, checked under Spec *)

\* a step that re-runs the search expansion effect
EffectStep ==
    \/ \E docs \in SnapshotsUpTo(MaxDocs, LiveDocs) : OnSnapshot(docs)
    \/ \E term \in Terms : SetSearchTerm(term)

SnapshotStep == \E docs \in SnapshotsUpTo(MaxDocs, LiveDocs) : OnSnapshot(docs)

SearchStep == \E term \in Terms : SetSearchTerm(term)

\* the keys of the calendar day of instant t
YearKeyOf(t) == ToString(Calendar(t).year)
MonthKeyOf(t) == ToString(Calendar(t).year) \o "-" \o Calendar(t).month

\* C3: a note without a timestamp never makes the effect or the grouping
\* throw.
MissingTimestampNeverThrows == ~crashed

\* C6: after the effect has run with a non-empty term, the year key and the
\* year-month key of every matching past note are true, and the past
\* section is shown when there is such a note.  The terms taken here are
\* those with a character other than a space; the effect leaves the state
\* alone on a blank term.
AutoExpansionOpensMatches ==
    [][ (EffectStep /\ trim(searchTerm') # <<>>)
        => \A k \in 1..Len(notes') :
             LET n == notes'[k]
             IN  ( /\ hasTimestamp(n)
                   /\ Calendar(n.timestamp) # Calendar(now')
                   /\ ContainsIgnoringCase(n.text, searchTerm') )
                 => /\ truthy(expandedItems', YearKeyOf(n.timestamp))
                    /\ truthy(expandedItems', MonthKeyOf(n.timestamp))
                    /\ showPastNotes' ]_vars

\* C7: while the term stays non-empty, a run of the effect leaves every key
\* that was true true.
AutoExpansionMonotonic ==
    [][ (EffectStep /\ searchTerm # <<>> /\ searchTerm' # <<>>)
        => \A k \in DOMAIN expandedItems :
             expandedItems[k] => truthy(expandedItems', k) ]_vars

\* under a typed term, a key opened by the effect is still open although no
\* current match asks for it
AutoExpansionMonotonicWitness ==
    /\ ~crashed
    /\ trim(searchTerm) # <<>>
    /\ \E k \in DOMAIN expandedItems :
          /\ expandedItems[k]
          /\ openedBy[k] = "auto"
          /\ k \notin DOMAIN newExpandedOf(searchMatches(notes, searchTerm, now))

\* C8 as stated: once the term is empty, only nodes opened by manual toggle
\* are open.
ClearingSearchCollapsesAutoOpened ==
    searchTerm = <<>>
    => \A k \in DOMAIN expandedItems : expandedItems[k] => openedBy[k] = "user"

\* C8 as amended: a change of the term to an empty or blank one leaves the
\* expansion state and the visibility of the past section as they were.
ClearingSearchKeepsExpansion ==
    [][ (SearchStep /\ trim(searchTerm') = <<>>)
        => /\ expandedItems' = expandedItems
           /\ showPastNotes' = showPastNotes ]_vars

\* the term has been cleared and a node opened by the effect is still open
ClearingSearchKeepsExpansionWitness ==
    /\ searchTerm = <<>>
    /\ showPastNotes
    /\ \E k \in DOMAIN expandedItems : expandedItems[k] /\ openedBy[k] = "auto"

\* C9: a node the effect had opened and the user collapsed stays collapsed
\* when a snapshot is delivered (the term being unchanged).
ManualCollapseSurvivesSnapshot ==
    [][ SnapshotStep
        => \A k \in DOMAIN expandedItems :
             (~expandedItems[k] /\ k \in DOMAIN openedBy /\ openedBy[k] = "auto")
             => ~truthy(expandedItems', k) ]_vars

\* C10: a toggle flips its key, absent counting as false, and changes no
\* other key, nor the notes, the term or the grouping.
ToggleFlipsOnlyItsKey ==
    [][ \A key \in renderedKeys :
          ToggleExpand(key)
          => /\ truthy(expandedItems', key) = ~truthy(expandedItems, key)
             /\ key \in DOMAIN expandedItems'
             /\ \A j \in (DOMAIN expandedItems \cup DOMAIN expandedItems') \ {key} :
                  /\ j \in DOMAIN expandedItems
                  /\ j \in DOMAIN expandedItems'
                  /\ expandedItems'[j] = expandedItems[j]
             /\ notes' = notes
             /\ searchTerm' = searchTerm
             /\ rendered' = rendered ]_vars

\* a key the user had opened has been toggled closed, next to another key
ToggleFlipsOnlyItsKeyWitness ==
    /\ \E k \in DOMAIN expandedItems :
          /\ ~expandedItems[k]
          /\ k \in DOMAIN openedBy
          /\ openedBy[k] = "user"
    /\ Cardinality(DOMAIN expandedItems) >= 2

----------------------------------------------------------------------------
(* Expansion property of the older variants, checked under SpecOlder *)

\* a step of the older variants that re-runs their effect
OlderEffectStep ==
    \/ \E docs \in SnapshotsUpTo(MaxDocs, LiveDocs) : OlderOnSnapshot(docs)
    \/ \E term \in Terms : OlderSetSearchTerm(term)

\* the year keys and year-month keys of the notes of another day than today
\* whose text contains the term
KeysOfPastMatches(ns, term, clock) ==
    UNION { { YearKeyOf(ns[k].timestamp), MonthKeyOf(ns[k].timestamp) } :
            k \in { j \in 1..Len(ns) :
                      /\ hasTimestamp(ns[j])
                      /\ Calendar(ns[j].timestamp) # Calendar(clock)
                      /\ ContainsIgnoringCase(ns[j].text, term) } }

\* C27: in the older variants, after the effect has run the expansion state
\* is the empty map when the term is blank, and otherwise holds exactly the
\* keys of the matching past notes, each true; nothing of the earlier state
\* is kept.
OlderEffectReplacesExpansion ==
    [][ OlderEffectStep
        => /\ trim(searchTerm') = <<>> => expandedItems' = EmptyObject
           /\ trim(searchTerm') # <<>>
              => /\ DOMAIN expandedItems' = KeysOfPastMatches(notes', searchTerm', now')
                 /\ \A k \in DOMAIN expandedItems' : expandedItems'[k] ]_vars

\* under a typed term the map holds the keys of a match, and a key the user
\* had opened by hand is gone from it
OlderEffectReplacesExpansionWitness ==
    /\ trim(searchTerm) # <<>>
    /\ DOMAIN expandedItems # {}
    /\ DOMAIN expandedItems = KeysOfPastMatches(notes, searchTerm, now)
    /\ \E k \in DOMAIN openedBy : openedBy[k] = "user" /\ k \notin DOMAIN expandedItems

----------------------------------------------------------------------------
(* Recording properties, checked under SpecRecording *)

\* a step in which the recognition object h reports its end (an error, a
\* result, any event)
EndStep(h) == h \in DOMAIN recognitions /\ OnEnd(h)

ErrorStep(h) == h \in DOMAIN recognitions /\ \E code \in ErrorCodes : OnError(h, code)

ResultStep(h) ==
    h \in DOMAIN recognitions /\ \E transcript \in Transcripts : OnResult(h, transcript)

EventStep(h) == EndStep(h) \/ ErrorStep(h) \/ ResultStep(h)

\* the handles that may exist
Handles == 1..(MaxRecognitions + 1)

\* C11: a gesture-start that finds a microphone error message, or no
\* recognition object, changes nothing: the recording flag is false and
\* stays false, the transcript buffer is unchanged, no object is started and
\* nothing is thrown.
GuardedStartIsNoOp ==
    [][ (HandleRecordStart /\ (micError # "" \/ recognitionRef = NoHandle))
        => /\ ~isRecording
           /\ ~isRecording'
           /\ transcriptRef' = transcriptRef
           /\ recognitions' = recognitions
           /\ lastCall'.threw = "" ]_vars

\* a gesture-start has found the message of an error while the buffer held
\* a transcript and a recognition object was there to be started
GuardedStartIsNoOpWitness ==
    /\ lastCall.handler = "handleRecordStart"
    /\ micError # ""
    /\ recognitionRef # NoHandle
    /\ transcriptRef # <<>>

\* C12: a gesture-start received while a session is recording changes
\* nothing: the buffer is not cleared and start() is not called again (a
\* second start() on a started object throws InvalidStateError).
StartWhileRecordingIsNoOp ==
    [][ (HandleRecordStart /\ isRecording)
        => /\ transcriptRef' = transcriptRef
           /\ recognitions' = recognitions
           /\ lastCall'.threw = "" ]_vars

\* C13: when a session ends, after stop() or by itself, the state is Idle
\* and, if the buffer is not blank, a note with the trimmed text is created
\* (for the user the handler knows) and the buffer is empty afterwards.
EndCreatesNoteAndClearsBuffer ==
    [][ \A h \in Handles :
          EndStep(h)
          => /\ ~isRecording'
             /\ trim(transcriptRef) # <<>>
                => /\ recognitions[h].user # NoUser
                      => /\ Len(store') = Len(store) + 1
                         /\ store'[Len(store')].text = trim(transcriptRef)
                   /\ transcriptRef' = <<>> ]_vars

\* C14: an error of the recognition stores a message and ends the recording
\* state; a stored message is never cleared; while a message is stored the
\* recording flag is false and a gesture-start changes nothing.
ErrorDisablesRecording ==
    [][ /\ \A h \in Handles : ErrorStep(h) => (micError' # "" /\ ~isRecording')
        /\ micError # "" => micError' # ""
        /\ micError' # "" => ~isRecording'
        /\ (HandleRecordStart /\ micError # "")
           => UNCHANGED <<isRecording, transcriptRef, recognitions>> ]_vars

\* after an error the language has been changed, which created a new
\* recognition object, and a gesture-start has still been refused
ErrorDisablesRecordingWitness ==
    /\ micError = "Speech error: no-speech"
    /\ language = "fr-FR"
    /\ recognitionRef # NoHandle
    /\ recognitions[recognitionRef].state = "idle"
    /\ lastCall.handler = "handleRecordStart"
    /\ ~isRecording

\* C15: once the setup effect has created a new recognition object, the
\* session of the old one is over, and no event of an old object creates a
\* note or changes the recording flag.
RecreationInvalidatesSession ==
    [][ /\ recognitionRef' # recognitionRef
           => \A h \in DOMAIN recognitions' \ {recognitionRef'} :
                recognitions'[h].state = "idle"
        /\ \A h \in Handles \ {recognitionRef} :
             EventStep(h) => (store' = store /\ isRecording' = isRecording) ]_vars

\* C16: the end of a session writes a document only if a user is signed in
\* and the buffer is not blank, and then exactly one, with the trimmed text;
\* with a blank buffer it writes nothing, throws nothing and leaves the note
\* list, the edit state and the message as they were.
NoteWrittenOnlyWhenSignedIn ==
    [][ \A h \in Handles :
          EndStep(h)
          => /\ store' # store
                => /\ user # NoUser
                   /\ trim(transcriptRef) # <<>>
                   /\ Len(store') = Len(store) + 1
                   /\ SubSeq(store', 1, Len(store)) = store
                   /\ store'[Len(store')].text = trim(transcriptRef)
             /\ trim(transcriptRef) = <<>>
                => /\ store' = store
                   /\ lastCall'.threw = ""
                   /\ UNCHANGED <<notes, editingNote, editText, micError>> ]_vars

\* C28: each transcript produces at most one note: an end event that
\* directly follows an end event which saved the buffer, no result having
\* been received in between, creates no note, whatever object it comes from.
TranscriptSavedOnce ==
    [][ \A h \in Handles :
          (EndStep(h) /\ lastCall.handler = "onend" /\ lastCall.saved)
          => store' = store ]_vars

----------------------------------------------------------------------------
(* Note properties, checked under SpecStore and SpecRecording *)

\* the time of the server: the instant at which the page is observed
serverNow == CHOOSE c \in PageClocks : TRUE

\* C17: every document of the collection has a text that is not blank.
StoredTextsNotBlank ==
    \A i \in 1..Len(store) : trim(store[i].text) # <<>>

\* C18: saveEdit sets the text of the document whose id startEditing took,
\* and nothing else: no document is added or removed, every document keeps
\* its id, its fields and its timestamp, every other document is untouched;
\* without a note being edited, or without a user, the collection is left
\* as it is.
SaveEditChangesOnlyText ==
    [][ SaveEdit
        => /\ Len(store') = Len(store)
           /\ \A i \in 1..Len(store) :
                /\ store'[i].id = store[i].id
                /\ DOMAIN store'[i] = DOMAIN store[i]
                /\ hasTimestamp(store[i]) => store'[i].timestamp = store[i].timestamp
                /\ store'[i] # store[i]
                   => /\ user # NoUser
                      /\ editingNote # NoNote
                      /\ store[i].id = editingNote[1].id
           /\ \A i \in 1..Len(store) :
                store[i].id = editingNote[1].id => store'[i].text = editText
           /\ saveEdit(NoUser, editingNote, editText, store) = store
           /\ saveEdit(user, NoNote, editText, store) = store ]_vars

\* an edit has been saved in a collection of several notes: one note
\* carries the typed text, with the timestamp of a sample of today, and the
\* update is under way
SaveEditChangesOnlyTextWitness ==
    /\ lastCall = [handler |-> "saveEdit", threw |-> ""]
    /\ pending # <<>>
    /\ pending[Len(pending)] = [handler |-> "saveEdit", error |-> ""]
    /\ Len(store) >= 2
    /\ \E i \in 1..Len(store) :
          /\ store[i].text = <<"c", " ">>
          /\ store[i].timestamp = now

\* C19: the timestamp of a created note is the time of the server, whatever
\* the clock of the client shows, so that the new note is at least as new
\* as every note that was there before.
CreatedTimestampIsServerTime ==
    [][ \A h \in Handles :
          (EndStep(h) /\ Len(store') > Len(store))
          => /\ store'[Len(store')].timestamp = serverNow
             /\ \A i \in 1..Len(store) :
                  store[i].timestamp <= store'[Len(store')].timestamp ]_vars

----------------------------------------------------------------------------
(* Snapshot property, checked under SpecSnapshot *)

\* C20: after a snapshot the note list holds exactly the documents of that
\* snapshot, each once, whatever the list held before; it is ordered by
\* timestamp, newest first, and the notes without a timestamp come after
\* all the others.
SnapshotReplacesAndSorts ==
    lastCall.handler = "onSnapshot"
    => /\ Len(notes) = Len(lastCall.docs)
       /\ \A i \in 1..Len(lastCall.docs) :
            Cardinality({ j \in 1..Len(notes) : notes[j] = lastCall.docs[i] }) = 1
       /\ \A i, j \in 1..Len(notes) :
            i < j => \/ ~hasTimestamp(notes[j])
                     \/ /\ hasTimestamp(notes[i])
                        /\ notes[i].timestamp >= notes[j].timestamp

\* a snapshot listing the note without a timestamp first and the oldest
\* note before the newest has been delivered
SnapshotReplacesAndSortsWitness ==
    /\ lastCall.handler = "onSnapshot"
    /\ Len(lastCall.docs) = 4
    /\ ~hasTimestamp(lastCall.docs[1])
    /\ lastCall.docs[2].timestamp < lastCall.docs[3].timestamp
    /\ notes # lastCall.docs

----------------------------------------------------------------------------
(* Batch delete properties, checked under SpecDelete *)

\* C21: a confirmed delete-all leaves the user's collection empty, whatever
\* was added to it since the last snapshot the page received, and the
\* snapshot that follows the commit is empty.
DeleteAllEmptiesCollection ==
    [][ /\ (HandleConfirmDelete /\ showDeleteConfirm.type = "all") => store' = <<>>
        /\ ( /\ SnapshotArrives
             /\ lastCall.handler = "handleConfirmDelete"
             /\ lastCall.selection.type = "all" ) => notes' = <<>> ]_vars

\* the ids of the notes of the list ns that the calendar puts in the year,
\* or in the year and month, of the selection sel
TargetIds(sel, ns) ==
    { ns[i].id : i \in { j \in 1..Len(ns) :
        /\ hasTimestamp(ns[j])
        /\ Calendar(ns[j].timestamp).year = sel.year
        /\ sel.type = "month" => Calendar(ns[j].timestamp).month = sel.month } }

\* C29: a confirmed year delete removes exactly the notes of the last
\* snapshot received whose timestamp lies in the selected year, a confirmed
\* month delete exactly those of the selected year and month; notes without
\* a timestamp stay, the search term plays no part, and Cancel or an empty
\* target writes nothing and closes the dialog; the dialog of a delete that
\* was committed closes when the commit has settled, which writes nothing.
YearMonthDeleteIsExact ==
    [][ /\ (HandleConfirmDelete /\ showDeleteConfirm.type \in {"year", "month"})
           => /\ idsOf(store') = idsOf(store) \ TargetIds(showDeleteConfirm, notes)
              /\ \A i \in 1..Len(store) :
                    store[i].id \in idsOf(store') => store[i] \in Range(store')
              /\ \A i \in 1..Len(store) : ~hasTimestamp(store[i]) => store[i] \in Range(store')
              /\ TargetIds(showDeleteConfirm, notes) = {}
                 => (store' = store /\ showDeleteConfirm' = NoSelection /\ pending' = pending)
        /\ (RequestSettles /\ Head(pending) = [handler |-> "handleConfirmDelete", error |-> ""])
           => (store' = store /\ showDeleteConfirm' = NoSelection)
        /\ CancelDelete => (store' = store /\ showDeleteConfirm' = NoSelection) ]_vars

\* the year 2024 has been deleted while the term 'a' hid its note of July:
\* that note is gone with the one of January, the notes of 2023 and the one
\* without a timestamp are still there, and the commit is under way
YearMonthDeleteIsExactWitness ==
    /\ lastCall.handler = "handleConfirmDelete"
    /\ lastCall.selection = [type |-> "year", year |-> 2024]
    /\ searchTerm = <<"a">>
    /\ {"n1", "n4"} \subseteq lastCall.deleted
    /\ {"n5", "n7"} \subseteq idsOf(store)
    /\ pending # <<>>

----------------------------------------------------------------------------
(* Subscription properties, checked under SpecSubscription *)

\* a step in which the listener is called with an error
SnapshotErrorStep == \E error \in SubscriptionErrors : OnSnapshotError(error)

\* C22: an error of the subscription stores a message and changes nothing
\* else: the note list, the term, the expansion state and what is rendered
\* stay as they were and the page is still mounted; a snapshot delivered
\* afterwards clears the message.
SubscriptionErrorOnlySetsMessage ==
    [][ /\ SnapshotErrorStep
           => /\ firestoreError' # NoError
              /\ notes' = notes
              /\ rendered' = rendered
              /\ rendered'.mounted
              /\ ~crashed'
              /\ UNCHANGED <<searchTerm, expandedItems, showPastNotes, user, store,
                             editingNote, editText, showDeleteConfirm>>
        /\ SnapshotArrives => firestoreError' = NoError ]_vars

\* the message of an error was shown over a list of notes, and a snapshot
\* of a new subscription has cleared it
SubscriptionErrorOnlySetsMessageWitness ==
    /\ lastCall.handler = "onSnapshot"
    /\ lastCall.found # NoError
    /\ firestoreError = NoError
    /\ Len(notes) > 0

\* C23: no rejection of a request leaves the handler that issued it, and
\* when the commit of a batch delete has settled, rejected or not, the
\* confirmation dialog is closed.
RejectionsAreCaught ==
    /\ lastCall.threw \notin ServiceErrors
    /\ (lastCall.handler = "settled" /\ lastCall.request = "handleConfirmDelete")
       => showDeleteConfirm = NoSelection

\* C24: the note list holds only notes of the collection of the user signed
\* in, and is empty when nobody is signed in.
NotesBelongToUser ==
    /\ user = NoUser => notes = <<>>
    /\ user # NoUser => idsOf(notes) \subseteq idsOf(collectionOf(user, store))

----------------------------------------------------------------------------
(* Color property, checked under SpecTheme *)

\* the value of the two hexadecimal digits at positions i and i + 1
ChannelValue(str, i) ==
    16 * ((CHOOSE k \in 1..16 : HexDigits[k] = str[i]) - 1)
       + ((CHOOSE k \in 1..16 : HexDigits[k] = str[i + 1]) - 1)

\* channel value v scaled by (100 + percent) / 100, the fraction cut off,
\* brought into 0..255
ScaledAndClamped(v, percent) ==
    LET x == v * (100 + percent)
        q == IF x >= 0 THEN x \div 100 ELSE 0
    IN  IF q > 255 THEN 255 ELSE q

\* C25: the result of shadeColor is '#' followed by six hexadecimal digits;
\* each channel is the channel of the color scaled by (100 + percent) / 100
\* and lies in 0..255, for every percentage, also below -100;
\* shadeColor('#808080', 0) is '#808080'.
ShadeIsClampedHexColor ==
    lastCall.handler = "shadeColor"
    => /\ Len(lastCall.result) = 7
       /\ lastCall.result[1] = "#"
       /\ \A i \in 2..7 : \E k \in 1..16 : HexDigits[k] = lastCall.result[i]
       /\ \A i \in { 2, 4, 6 } :
            /\ ChannelValue(lastCall.result, i) \in 0..255
            /\ ChannelValue(lastCall.result, i)
                 = ScaledAndClamped(ChannelValue(lastCall.color, i), lastCall.percent)
       /\ (lastCall.color = << "#", "8", "0", "8", "0", "8", "0" >> /\ lastCall.percent = 0)
          => lastCall.result = << "#", "8", "0", "8", "0", "8", "0" >>

====
